---------------------------- MODULE Spec2Model ----------------------------
(***************************************************************************)
(* Model of the useXapiTracker hook (hooks/useXapiTracker): the xAPI       *)
(* statement log, the per-activity progress mapping and the progress       *)
(* summary kept in localStorage, the two ingress handlers and the listener *)
(* life cycle of one mounted hook.                                         *)
(*                                                                         *)
(* JavaScript values are records tagged by the field k, so that values of  *)
(* different JavaScript types can be told apart.  A JavaScript string is a *)
(* sequence of atoms: "/" is the slash, the atoms of PunctAtoms are single *)
(* characters outside [a-z0-9-], and every other atom is an indivisible    *)
(* non-empty run of characters of [a-z0-9-].  The time stamps the hook     *)
(* takes (a record's timestamp, lastActivity) are not modelled;            *)
(* lastUpdated is the one abstract stamp Stamp.  Numbers are integers (no  *)
(* NaN); a statement may carry a Date object as its timestamp.             *)
(***************************************************************************)
EXTENDS Integers, Sequences, FiniteSets, TLC

VARIABLES
    store,            \* localStorage: key -> Absent | Garbage | Text(value)
    storeAvailable,   \* FALSE: every access to localStorage throws
    mounted,          \* the hook's effect has run and was not cleaned up
    docListener,      \* handleDocumentXapiEvent is registered on document
    dispListener,     \* handleH5PXapiEvent is registered on the dispatcher
    h5pListenerRef,   \* h5pListenerRef.current is set
    initTimeout,      \* "none" | "pending" | "fired": initTimeoutRef's timer
    dispatcherReady,  \* window.H5P.externalDispatcher exists
    isListening,      \* the hook's isListening state
    delivered,        \* number of events delivered so far (bounds the run)
    lastOp,           \* the returned function the last step called, or "none"
    fnArg,            \* the argument of a pure helper under test
    fnRet,            \* the value the last call returned
    tracker,          \* the SimpleXAPITracker singleton, the sends it started
    attempts,         \* calls of tryAttachH5PListener since the effect ran
    documentListeners,\* the components whose hook has its handler on document,
                      \* in the order of addEventListener
    player,           \* H5PPlayer: the dispatcher, the global flag, the retry chains
    loader            \* h5pLoader: scriptPromises, h5pGlobalPromise, the polling loop

vars == <<store, storeAvailable, mounted, docListener, dispListener,
          h5pListenerRef, initTimeout, dispatcherReady, isListening,
          delivered, lastOp, fnArg, fnRet, tracker, attempts,
          documentListeners, player, loader>>

-----------------------------------------------------------------------------
(* JavaScript values *)

Undef == [k |-> "undef"]
Null == [k |-> "null"]
Num(n) == [k |-> "num", n |-> n]
Str(s) == [k |-> "str", s |-> s]
Bool(b) == [k |-> "bool", b |-> b]
Threw == [k |-> "threw"]

\* the page has not loaded utils/simpleXAPITracker
NoTracker == [live |-> FALSE]

\* H5PPlayer before its first mount: no dispatcher, the flag
\* window.__H5P_XAPI_LISTENERS_ATTACHED__ unset, no handler, no retry chain
NoPlayer == [dispatcher |-> FALSE, attached |-> FALSE, handlers |-> 0, chains |-> <<>>]

\* h5pLoader before its first call: scriptPromises is empty and
\* h5pGlobalPromise undefined
NoLoader ==
    [scriptPromises |-> << >>, h5pGlobalPromise |-> 0, runs |-> <<>>,
     callers |-> <<>>, scripts |-> {}, appended |-> << >>, links |-> << >>,
     globals |-> FALSE]

\* truthiness of the values that occur as contentId, object.id and verb.id
Truthy(v) ==
    CASE v.k = "undef" -> FALSE
      [] v.k = "null" -> FALSE
      [] v.k = "str" -> v.s # <<>>
      [] v.k = "num" -> v.n # 0
      [] v.k = "bool" -> v.b
      [] OTHER -> TRUE

PunctAtoms == {":", "?", "."}
IsSlash(c) == c = "/"
IsSlugChar(c) == ~IsSlash(c) /\ c \notin PunctAtoms

-----------------------------------------------------------------------------
(* extractActivitySlug *)

NoSlash(s, i, j) == \A x \in i..j : ~IsSlash(s[x])

\* contentId.match(/\/([^/]+)$/): the capture group, or <<>> when no match
ContentIdMatch(s) ==
    LET n == Len(s)
        starts == {i \in 1..n : IsSlash(s[i]) /\ i < n /\ NoSlash(s, i + 1, n)}
    IN  IF starts = {} THEN <<>>
        ELSE LET i == CHOOSE x \in starts : \A y \in starts : x <= y
             IN  SubSeq(s, i + 1, n)

\* a match of /\/([^/]+)(?:\/[^/]*)?$/ that starts at i and whose group ends at e
UrlMatchAt(s, i, e) ==
    LET n == Len(s)
    IN  /\ IsSlash(s[i])
        /\ e > i
        /\ NoSlash(s, i + 1, e)
        /\ \/ e = n
           \/ e < n /\ IsSlash(s[e + 1]) /\ NoSlash(s, e + 2, n)

\* objectId.match(/\/([^/]+)(?:\/[^/]*)?$/): the leftmost match, its group
\* taken greedily; <<>> when no match
UrlMatch(s) ==
    LET n == Len(s)
        starts == {i \in 1..n : \E e \in 1..n : UrlMatchAt(s, i, e)}
    IN  IF starts = {} THEN <<>>
        ELSE LET i == CHOOSE x \in starts : \A y \in starts : x <= y
                 ends == {e \in 1..n : UrlMatchAt(s, i, e)}
                 e == CHOOSE x \in ends : \A y \in ends : x >= y
             IN  SubSeq(s, i + 1, e)

\* objectId.match(/([a-z0-9-]+)$/i): the longest trailing run, or <<>>
SimpleMatch(s) ==
    LET n == Len(s)
        starts == {i \in 1..n : \A x \in i..n : IsSlugChar(s[x])}
    IN  IF starts = {} THEN <<>>
        ELSE LET i == CHOOSE x \in starts : \A y \in starts : x <= y
             IN  SubSeq(s, i, n)

UnknownActivity == Str(<<"unknown-activity">>)

\* contentId of the statement: extensions.contentId || extensions[content-id]
ContentIdOf(statement) ==
    IF Truthy(statement.contentId) THEN statement.contentId
    ELSE statement.contentIdAlt

\* extractActivitySlug without its try/catch: the TypeError escapes
extractActivitySlugNoCatch(statement) ==
    IF statement.k # "obj" THEN Threw
    ELSE LET contentId == ContentIdOf(statement)
             objectId == statement.objectId
         IN  IF Truthy(contentId) /\ contentId.k # "str" THEN Threw
             ELSE IF Truthy(contentId) /\ ContentIdMatch(contentId.s) # <<>>
                  THEN Str(ContentIdMatch(contentId.s))
             ELSE IF ~Truthy(objectId) THEN UnknownActivity
             ELSE IF objectId.k # "str" THEN Threw
             ELSE IF UrlMatch(objectId.s) # <<>> THEN Str(UrlMatch(objectId.s))
             ELSE IF SimpleMatch(objectId.s) # <<>> THEN Str(SimpleMatch(objectId.s))
             ELSE UnknownActivity

\* The value returned by extractActivitySlug; a statement that is not an
\* object, or a truthy contentId / object.id without a match method, raises a
\* TypeError inside the try block and the catch returns the fallback.
extractActivitySlug(statement) ==
    IF statement.k # "obj" THEN UnknownActivity
    ELSE LET contentId == ContentIdOf(statement)
             objectId == statement.objectId
         IN  IF Truthy(contentId) /\ contentId.k # "str" THEN UnknownActivity
             ELSE IF Truthy(contentId) /\ ContentIdMatch(contentId.s) # <<>>
                  THEN Str(ContentIdMatch(contentId.s))
             ELSE IF ~Truthy(objectId) THEN UnknownActivity
             ELSE IF objectId.k # "str" THEN UnknownActivity
             ELSE IF UrlMatch(objectId.s) # <<>> THEN Str(UrlMatch(objectId.s))
             ELSE IF SimpleMatch(objectId.s) # <<>> THEN Str(SimpleMatch(objectId.s))
             ELSE UnknownActivity

-----------------------------------------------------------------------------
(* calculateCompletionPercentage *)

FloorDiv(a, b) == IF b > 0 THEN a \div b ELSE (0 - a) \div (0 - b)

\* a rounding that cuts the fraction off instead of rounding to nearest
MathRoundDown(num, den) == FloorDiv(num, den)

\* Math.round(x) for the rational x = num / den: floor(x + 1/2)
MathRound(num, den) == FloorDiv(2 * num + den, 2 * den)

NoScore == [k |-> "undef"]
Score(raw, max) == [k |-> "obj", raw |-> raw, max |-> max]
NoResult == [k |-> "undef"]
Result(score, success) == [k |-> "obj", score |-> score, success |-> success]

\* const { raw = 0, max = 1 } = result.score
RawOf(score) == IF score.raw.k = "undef" THEN 0 ELSE score.raw.n
MaxOf(score) == IF score.max.k = "undef" THEN 1 ELSE score.max.n

calculateCompletionPercentage(result) ==
    IF result.k = "undef" \/ result.score.k = "undef" THEN 0
    ELSE IF MaxOf(result.score) = 0 THEN 0
    ELSE MathRound(RawOf(result.score) * 100, MaxOf(result.score))


-----------------------------------------------------------------------------
(* localStorage and the JSON helpers *)

XAPI_RECORDS_KEY == "xapiRecords"
PROGRESS_KEY == "h5p-progress"
PROGRESS_SUMMARY_KEY == "h5p-progress-summary"
Keys == {XAPI_RECORDS_KEY, PROGRESS_KEY, PROGRESS_SUMMARY_KEY}

\* what localStorage holds under a key: nothing, a string that is no JSON
\* text, or the JSON text of a value
Absent == [k |-> "absent"]
Garbage == [k |-> "garbage"]
Text(v) == [k |-> "json", v |-> v]

EmptyMap == [s \in {} |-> Undef]
\* JSON values: an array with its elements; an object used as a mapping; an
\* empty array that carries named properties m (Object.values sees them,
\* JSON.stringify does not)
JArr(items) == [k |-> "arr", items |-> items]
JMap(m) == [k |-> "map", m |-> m]
JArrProps(m) == [k |-> "arrprops", m |-> m]

\* a Date object, and the string its toJSON() gives
DateObj == [k |-> "date"]
IsoString == Str(<<"iso-8601">>)

\* what JSON.stringify writes for a statement: a Date becomes its ISO string
StatementAsJSON(statement) ==
    IF statement.k = "obj" /\ statement.timestamp.k = "date"
    THEN [statement EXCEPT !.timestamp = IsoString]
    ELSE statement

\* JSON.stringify(value): the text; named properties of an array are
\* dropped, the statements of log records are written as JSON has them
JSONstringify(v) ==
    IF v.k = "arrprops" THEN Text(JArrProps(EmptyMap))
    ELSE IF v.k = "arr"
    THEN Text(JArr([i \in DOMAIN v.items |->
                      [v.items[i] EXCEPT !.statement = StatementAsJSON(@)]]))
    ELSE Text(v)

\* JSON.parse(text): the value, or Threw (SyntaxError)
JSONparse(t) == IF t.k = "json" THEN t.v ELSE Threw

\* safeParseJSON without its try/catch: a failed access or parse escapes
safeParseJSONNoCatch(st, avail, key, fallback) ==
    IF ~avail THEN Threw
    ELSE IF st[key].k = "absent" THEN fallback
    ELSE JSONparse(st[key])

\* safeParseJSON(key, fallback) on the storage st; avail = FALSE: the access
\* to localStorage throws, which the catch turns into the fallback
safeParseJSON(st, avail, key, fallback) ==
    IF ~avail THEN fallback
    ELSE IF st[key].k = "absent" THEN fallback
    ELSE IF JSONparse(st[key]).k = "threw" THEN fallback
    ELSE JSONparse(st[key])

\* a safeStoreJSON whose failed write leaves the key without a value
safeStoreJSONDropsOnFailure(st, avail, key, data, accepted) ==
    IF avail /\ accepted THEN [st EXCEPT ![key] = JSONstringify(data)]
    ELSE [st EXCEPT ![key] = Absent]

\* safeStoreJSON(key, data): the storage afterwards; accepted = FALSE: setItem
\* throws (quota exceeded) and the stored value stays
safeStoreJSON(st, avail, key, data, accepted) ==
    IF avail /\ accepted THEN [st EXCEPT ![key] = JSONstringify(data)] ELSE st

\* the boolean safeStoreJSON returns
safeStoreJSONResult(avail, accepted) == avail /\ accepted

-----------------------------------------------------------------------------
(* updateProgressSummary *)

RECURSIVE SumOver(_, _)
SumOver(f, S) ==
    IF S = {} THEN 0
    ELSE LET x == CHOOSE y \in S : TRUE
         IN  f[x].completionPercentage + SumOver(f, S \ {x})

Stamp == "iso-8601"

\* a summary whose average runs over every scored activity, completed or not
SummaryOfAllScored(m) ==
    LET completed == {s \in DOMAIN m : m[s].isCompleted}
        scored == {s \in DOMAIN m : m[s].completionPercentage > 0}
    IN  [k |-> "summary",
         totalActivities |-> Cardinality(DOMAIN m),
         completedActivities |-> Cardinality(completed),
         completionRate |->
             IF DOMAIN m # {}
             THEN MathRound(Cardinality(completed) * 100, Cardinality(DOMAIN m))
             ELSE 0,
         averageScorePercent |->
             IF scored # {}
             THEN MathRound(SumOver(m, scored), Cardinality(scored))
             ELSE 0,
         lastUpdated |-> Stamp]

\* the summary object updateProgressSummary builds from Object.values(progressData)
SummaryOf(m) ==
    LET activities == DOMAIN m
        totalActivities == Cardinality(activities)
        completed == {s \in activities : m[s].isCompleted}
        completedActivities == Cardinality(completed)
        completedWithScores == {s \in completed : m[s].completionPercentage > 0}
    IN  [k |-> "summary",
         totalActivities |-> totalActivities,
         completedActivities |-> completedActivities,
         completionRate |->
             IF totalActivities > 0
             THEN MathRound(completedActivities * 100, totalActivities)
             ELSE 0,
         averageScorePercent |->
             IF Cardinality(completedWithScores) > 0
             THEN MathRound(SumOver(m, completedWithScores),
                            Cardinality(completedWithScores))
             ELSE 0,
         lastUpdated |-> Stamp]

updateProgressSummary(st, avail, progressData, accepted) ==
    safeStoreJSON(st, avail, PROGRESS_SUMMARY_KEY, SummaryOf(progressData.m), accepted)

-----------------------------------------------------------------------------
(* updateProgress *)

RECURSIVE EndsWith(_, _)
\* String.prototype.endsWith
EndsWith(s, suffix) ==
    IF suffix = <<>> THEN TRUE
    ELSE IF s = <<>> THEN FALSE
    ELSE /\ s[Len(s)] = suffix[Len(suffix)]
         /\ EndsWith(SubSeq(s, 1, Len(s) - 1), SubSeq(suffix, 1, Len(suffix) - 1))

Answered == <<"/", "answered">>
Completed == <<"/", "completed">>

\* the record a slug gets on its first qualifying statement
NewActivity(slug) ==
    [slug |-> slug, questionsAnswered |-> 0, questionsCompleted |-> 0,
     lastScore |-> 0, lastSuccess |-> FALSE, completionPercentage |-> 0,
     isCompleted |-> FALSE]

\* result.score?.raw || 0
LastScoreOf(result) ==
    IF result.score.k = "undef" THEN 0
    ELSE IF result.score.raw.k = "undef" THEN 0
    ELSE result.score.raw.n

\* result.success || false
LastSuccessOf(result) == result.success.k = "bool" /\ result.success.b

\* a variant that clears the three fields when the statement has no result
WithResultOrReset(rec, result) ==
    IF result.k = "undef"
    THEN [rec EXCEPT !.lastScore = 0, !.lastSuccess = FALSE,
                     !.completionPercentage = 0]
    ELSE [rec EXCEPT !.lastScore = LastScoreOf(result),
                     !.lastSuccess = LastSuccessOf(result),
                     !.completionPercentage = calculateCompletionPercentage(result)]

\* lastScore, lastSuccess and completionPercentage taken from a result
WithResult(rec, result) ==
    IF result.k = "undef" THEN rec
    ELSE [rec EXCEPT !.lastScore = LastScoreOf(result),
                     !.lastSuccess = LastSuccessOf(result),
                     !.completionPercentage = calculateCompletionPercentage(result)]

\* an /answered branch that also marks the activity completed
ApplyAnsweredCompletes(rec, result) ==
    WithResult([rec EXCEPT !.questionsAnswered = @ + 1, !.isCompleted = TRUE], result)

\* an /answered branch that leaves questionsAnswered as it is
ApplyAnsweredUncounted(rec, result) == WithResult(rec, result)

\* the branch of a verb ending in /answered
ApplyAnswered(rec, result) ==
    WithResult([rec EXCEPT !.questionsAnswered = @ + 1], result)

\* a /completed branch that sets isCompleted from the result's success
ApplyCompletedOnSuccess(rec, result) ==
    WithResult([rec EXCEPT !.questionsCompleted = @ + 1,
                           !.isCompleted = result.k = "obj" /\ LastSuccessOf(result)],
               result)

\* the branch of a verb ending in /completed
ApplyCompleted(rec, result) ==
    WithResult([rec EXCEPT !.questionsCompleted = @ + 1, !.isCompleted = TRUE], result)

\* the record of slug after the two verb branches
ApplyVerb(rec, verb, result) ==
    LET r1 == IF EndsWith(verb, Answered) THEN ApplyAnswered(rec, result) ELSE rec
    IN  IF EndsWith(verb, Completed) THEN ApplyCompleted(r1, result) ELSE r1

\* a test that lets every verb id that is a string through
QualifiesAnyVerb(statement) == statement.verb.k = "str"

\* the verb is one updateProgress tracks
Qualifies(statement) ==
    /\ statement.verb.k = "str"
    /\ EndsWith(statement.verb.s, Answered) \/ EndsWith(statement.verb.s, Completed)

\* updateProgress gets as far as changing a record: a verb id that is truthy
\* and no string, and a stored progress value that parses to null, raise a
\* TypeError that the catch swallows before anything is written
ReachesUpdate(st, avail, statement) ==
    /\ Truthy(statement.verb)
    /\ statement.verb.k = "str"
    /\ Qualifies(statement)
    /\ safeParseJSON(st, avail, PROGRESS_KEY, JMap(EmptyMap)).k # "null"

\* an updateProgress that stores the record of the statement's slug alone
UpdatedProgressOfSlugOnly(st, avail, statement) ==
    LET slug == extractActivitySlug(statement).s
        currentProgress == safeParseJSON(st, avail, PROGRESS_KEY, JMap(EmptyMap))
        m == currentProgress.m
        old == IF slug \in DOMAIN m THEN m[slug] ELSE NewActivity(slug)
        new == ApplyVerb(old, statement.verb.s, statement.result)
    IN  [currentProgress EXCEPT !.m = [s \in {slug} |-> new]]

\* currentProgress as updateProgress holds it when it stores it
UpdatedProgress(st, avail, statement) ==
    LET slug == extractActivitySlug(statement).s
        currentProgress == safeParseJSON(st, avail, PROGRESS_KEY, JMap(EmptyMap))
        m == currentProgress.m
        old == IF slug \in DOMAIN m THEN m[slug] ELSE NewActivity(slug)
        new == ApplyVerb(old, statement.verb.s, statement.result)
    IN  [currentProgress EXCEPT
            !.m = [s \in DOMAIN m \cup {slug} |-> IF s = slug THEN new ELSE m[s]]]

\* the storage after updateProgress(statement)
updateProgress(st, avail, statement, okProgress, okSummary) ==
    IF ~ReachesUpdate(st, avail, statement) THEN st
    ELSE LET updated == UpdatedProgress(st, avail, statement)
             st2 == safeStoreJSON(st, avail, PROGRESS_KEY, updated, okProgress)
         IN  updateProgressSummary(st2, avail, updated, okSummary)

-----------------------------------------------------------------------------
(* the two ingress handlers *)

\* event.detail?.statement || event.data?.statement
DocumentStatementOf(event) ==
    IF Truthy(event.detail) THEN event.detail ELSE event.data

\* event.data?.statement
H5PStatementOf(event) == event.data

LogRecord(statement, source) == [statement |-> statement, source |-> source]

\* a handler that stores the statement without its source tag
HandleStatementUntagged(st, avail, statement, source, okRecords, okProgress, okSummary) ==
    LET currentRecords == safeParseJSON(st, avail, XAPI_RECORDS_KEY, JArr(<<>>))
    IN  IF ~Truthy(statement) THEN st
        ELSE IF currentRecords.k # "arr" THEN st
        ELSE LET pushed == JArr(Append(currentRecords.items,
                                       LogRecord(statement, "unknown")))
                 st2 == safeStoreJSON(st, avail, XAPI_RECORDS_KEY, pushed, okRecords)
             IN  updateProgress(st2, avail, statement, okProgress, okSummary)

\* a handler that puts the new record in front of the stored ones
HandleStatementPrepends(st, avail, statement, source, okRecords, okProgress, okSummary) ==
    LET currentRecords == safeParseJSON(st, avail, XAPI_RECORDS_KEY, JArr(<<>>))
    IN  IF ~Truthy(statement) THEN st
        ELSE IF currentRecords.k # "arr" THEN st
        ELSE LET pushed == JArr(<<LogRecord(statement, source)>>
                                \o currentRecords.items)
                 st2 == safeStoreJSON(st, avail, XAPI_RECORDS_KEY, pushed, okRecords)
             IN  updateProgress(st2, avail, statement, okProgress, okSummary)

\* The common body of the two handlers: append the record, store the log,
\* update the progress.  A stored log that parses to a value without push
\* raises a TypeError, caught by the handler before anything is written.
HandleStatement(st, avail, statement, source, okRecords, okProgress, okSummary) ==
    LET currentRecords == safeParseJSON(st, avail, XAPI_RECORDS_KEY, JArr(<<>>))
    IN  IF ~Truthy(statement) THEN st
        ELSE IF currentRecords.k # "arr" THEN st
        ELSE LET pushed == JArr(Append(currentRecords.items,
                                       LogRecord(statement, source)))
                 st2 == safeStoreJSON(st, avail, XAPI_RECORDS_KEY, pushed, okRecords)
             IN  updateProgress(st2, avail, statement, okProgress, okSummary)

handleDocumentXapiEvent(st, avail, event, okRecords, okProgress, okSummary) ==
    HandleStatement(st, avail, DocumentStatementOf(event), "document",
                    okRecords, okProgress, okSummary)

handleH5PXapiEvent(st, avail, event, okRecords, okProgress, okSummary) ==
    HandleStatement(st, avail, H5PStatementOf(event), "H5P.externalDispatcher",
                    okRecords, okProgress, okSummary)

-----------------------------------------------------------------------------
(* the accessors *)

DefaultSummary ==
    [k |-> "summary", totalActivities |-> 0, completedActivities |-> 0,
     completionRate |-> 0, averageScorePercent |-> 0, lastUpdated |-> "null"]

getRecords(st, avail) == safeParseJSON(st, avail, XAPI_RECORDS_KEY, JArr(<<>>))
getProgress(st, avail) == safeParseJSON(st, avail, PROGRESS_KEY, JMap(EmptyMap))
getProgressSummary(st, avail) ==
    safeParseJSON(st, avail, PROGRESS_SUMMARY_KEY, DefaultSummary)

\* localStorage.removeItem(key)
RemoveItem(st, key) == [st EXCEPT ![key] = Absent]

\* the storage after clearRecords(); without the storage the call throws at
\* once and the catch returns false
clearRecords(st, avail) == IF avail THEN RemoveItem(st, XAPI_RECORDS_KEY) ELSE st

\* a clearProgress that forgets the summary key
clearProgressKeepsSummary(st, avail) ==
    IF avail THEN RemoveItem(st, PROGRESS_KEY) ELSE st

\* the storage after clearProgress()
clearProgress(st, avail) ==
    IF avail THEN RemoveItem(RemoveItem(st, PROGRESS_KEY), PROGRESS_SUMMARY_KEY)
    ELSE st


-----------------------------------------------------------------------------
(* the statements and events the environment delivers *)

MaxEvents == 2

Stmt(contentId, contentIdAlt, objectId, verb, result) ==
    [k |-> "obj", contentId |-> contentId, contentIdAlt |-> contentIdAlt,
     objectId |-> objectId, verb |-> verb, result |-> result,
     timestamp |-> Undef]

\* the statement with a timestamp its producer set to a Date object
WithDate(statement) == [statement EXCEPT !.timestamp = DateObj]

VerbAnswered == Str(<<"verbs", "/", "answered">>)
VerbCompleted == Str(<<"verbs", "/", "completed">>)
VerbAttempted == Str(<<"verbs", "/", "attempted">>)

ObjectUrl == Str(<<"http", ":", "/", "/", "host", "/", "h5p", "/", "quiz">>)
SlugA == <<"quiz-a">>
SlugB == <<"quiz-b">>

\* a statement of activity quiz-a names it in extensions.contentId, one of
\* quiz-b in the content-id extension
StmtA(verb, result) ==
    Stmt(Str(<<"/", "h5p", "/">> \o SlugA), Undef, ObjectUrl, verb, result)
StmtB(verb, result) ==
    Stmt(Undef, Str(<<"/", "h5p", "/">> \o SlugB), ObjectUrl, verb, result)

R80 == Result(Score(Num(8), Num(10)), Bool(TRUE))
R150 == Result(Score(Num(15), Num(10)), Bool(FALSE))

Statements ==
    { StmtA(VerbAnswered, R80), StmtA(VerbCompleted, R80),
      StmtB(VerbAnswered, NoResult), StmtB(VerbCompleted, R150),
      WithDate(StmtB(VerbAttempted, NoResult)) }

\* a document 'xAPI' event: the statement in detail, in data, or in neither
DocumentEvents ==
    {[detail |-> s, data |-> Undef] : s \in Statements}
    \cup {[detail |-> Undef, data |-> s] :
             s \in {StmtA(VerbCompleted, R80), StmtB(VerbAnswered, NoResult)}}
    \cup {[detail |-> Undef, data |-> Undef]}

\* an 'xAPI' event of H5P.externalDispatcher
H5PEvents == {[data |-> s] : s \in Statements} \cup {[data |-> Undef]}

-----------------------------------------------------------------------------
(* the state machine *)

InitialLog == {Absent, Garbage, Text(Null)}
InitialProgress == {Absent, Garbage, Text(Null), Text(JArrProps(EmptyMap))}
InitialSummary == {Absent, Garbage}

\* the storage the hook finds: empty, or with one key left in such a state
InitialStores ==
    {st \in [Keys -> InitialLog \cup InitialProgress \cup InitialSummary] :
        /\ st[XAPI_RECORDS_KEY] \in InitialLog
        /\ st[PROGRESS_KEY] \in InitialProgress
        /\ st[PROGRESS_SUMMARY_KEY] \in InitialSummary
        /\ Cardinality({key \in Keys : st[key] # Absent}) <= 1}

Init ==
    /\ storeAvailable \in BOOLEAN
    /\ store \in InitialStores
    /\ storeAvailable \/ \A key \in Keys : store[key] = Absent
    /\ mounted = FALSE
    /\ docListener = FALSE
    /\ dispListener = FALSE
    /\ h5pListenerRef = FALSE
    /\ initTimeout = "none"
    /\ dispatcherReady = FALSE
    /\ isListening = FALSE
    /\ delivered = 0
    /\ lastOp = "none"
    /\ fnArg = Undef
    /\ fnRet = Undef
    /\ tracker = NoTracker
    /\ attempts = 0
    /\ documentListeners = <<>>
    /\ player = NoPlayer
    /\ loader = NoLoader

\* the step is no call of the hook's returned functions
NoCall == lastOp' = "none" /\ fnRet' = Undef /\ UNCHANGED fnArg

\* the player's script has created window.H5P.externalDispatcher
DispatcherAppears ==
    /\ ~dispatcherReady
    /\ dispatcherReady' = TRUE
    /\ NoCall
    /\ UNCHANGED <<loader, player, documentListeners, attempts, tracker, store, storeAvailable, mounted, docListener, dispListener,
                   h5pListenerRef, initTimeout, isListening, delivered>>

\* an effect that registers the document listener once the dispatcher is there
MountNeedsDispatcher ==
    /\ ~mounted
    /\ mounted' = TRUE
    /\ docListener' = dispatcherReady
    /\ IF h5pListenerRef
       THEN UNCHANGED <<dispListener, h5pListenerRef, initTimeout, attempts>>
       ELSE IF dispatcherReady
       THEN /\ dispListener' = TRUE
            /\ h5pListenerRef' = TRUE
            /\ attempts' = 1
            /\ UNCHANGED initTimeout
       ELSE /\ initTimeout' = "pending"
            /\ attempts' = 1
            /\ UNCHANGED <<dispListener, h5pListenerRef>>
    /\ isListening' = TRUE
    /\ NoCall
    /\ UNCHANGED <<loader, player, documentListeners, tracker, store, storeAvailable, dispatcherReady, delivered>>

\* the effect: addEventListener, initializeH5PListener, setIsListening(true)
Mount ==
    /\ ~mounted
    /\ mounted' = TRUE
    /\ docListener' = TRUE
    /\ IF h5pListenerRef
       THEN UNCHANGED <<dispListener, h5pListenerRef, initTimeout, attempts>>
       ELSE IF dispatcherReady
       THEN /\ dispListener' = TRUE
            /\ h5pListenerRef' = TRUE
            /\ attempts' = 1
            /\ UNCHANGED initTimeout
       ELSE /\ initTimeout' = "pending"
            /\ attempts' = 1
            /\ UNCHANGED <<dispListener, h5pListenerRef>>
    /\ isListening' = TRUE
    /\ NoCall
    /\ UNCHANGED <<loader, player, documentListeners, tracker, store, storeAvailable, dispatcherReady, delivered>>

\* a timer that is set again when the dispatcher is still absent
RetryTimerPolls ==
    /\ initTimeout = "pending"
    /\ attempts < 4
    /\ initTimeout' = IF dispatcherReady THEN "fired" ELSE "pending"
    /\ attempts' = attempts + 1
    /\ IF dispatcherReady
       THEN dispListener' = TRUE /\ h5pListenerRef' = TRUE
       ELSE UNCHANGED <<dispListener, h5pListenerRef>>
    /\ NoCall
    /\ UNCHANGED <<loader, player, documentListeners, tracker, store, storeAvailable, mounted, docListener, dispatcherReady,
                   isListening, delivered>>

\* the 2 s timer of initializeH5PListener fires
RetryTimer ==
    /\ initTimeout = "pending"
    /\ initTimeout' = "fired"
    /\ attempts' = attempts + 1
    /\ IF dispatcherReady
       THEN dispListener' = TRUE /\ h5pListenerRef' = TRUE
       ELSE UNCHANGED <<dispListener, h5pListenerRef>>
    /\ NoCall
    /\ UNCHANGED <<loader, player, documentListeners, tracker, store, storeAvailable, mounted, docListener, dispatcherReady,
                   isListening, delivered>>

\* a cleanup that leaves the 2 s timer set
UnmountKeepsTimer ==
    /\ mounted
    /\ mounted' = FALSE
    /\ docListener' = FALSE
    /\ dispListener' = IF h5pListenerRef /\ dispatcherReady THEN FALSE ELSE dispListener
    /\ h5pListenerRef' = FALSE
    /\ isListening' = FALSE
    /\ attempts' = 0
    /\ NoCall
    /\ UNCHANGED <<loader, player, documentListeners, tracker, store, storeAvailable, dispatcherReady, delivered, initTimeout>>

\* cleanupRef.current, run by React on unmount
Unmount ==
    /\ mounted
    /\ mounted' = FALSE
    /\ docListener' = FALSE
    /\ dispListener' = IF h5pListenerRef /\ dispatcherReady THEN FALSE ELSE dispListener
    /\ initTimeout' = "none"
    /\ h5pListenerRef' = FALSE
    /\ isListening' = FALSE
    /\ attempts' = 0
    /\ NoCall
    /\ UNCHANGED <<loader, player, documentListeners, tracker, store, storeAvailable, dispatcherReady, delivered>>

\* a document 'xAPI' event reaches the registered handler
DocumentXapiEvent(event, okRecords, okProgress, okSummary) ==
    /\ docListener
    /\ delivered < MaxEvents
    /\ delivered' = delivered + 1
    /\ store' = handleDocumentXapiEvent(store, storeAvailable, event,
                                        okRecords, okProgress, okSummary)
    /\ NoCall
    /\ UNCHANGED <<loader, player, documentListeners, attempts, tracker, storeAvailable, mounted, docListener, dispListener,
                   h5pListenerRef, initTimeout, dispatcherReady, isListening>>

\* the dispatcher triggers 'xAPI' on the registered handler
H5PXapiEvent(event, okRecords, okProgress, okSummary) ==
    /\ dispListener
    /\ delivered < MaxEvents
    /\ delivered' = delivered + 1
    /\ store' = handleH5PXapiEvent(store, storeAvailable, event,
                                   okRecords, okProgress, okSummary)
    /\ NoCall
    /\ UNCHANGED <<loader, player, documentListeners, attempts, tracker, storeAvailable, mounted, docListener, dispListener,
                   h5pListenerRef, initTimeout, dispatcherReady, isListening>>

\* getRecords() is called; fnRet is what it returns
GetRecords ==
    /\ lastOp' = "getRecords"
    /\ fnRet' = getRecords(store, storeAvailable)
    /\ UNCHANGED <<loader, player, documentListeners, attempts, tracker, store, storeAvailable, mounted, docListener, dispListener,
                   h5pListenerRef, initTimeout, dispatcherReady, isListening,
                   delivered, fnArg>>

\* getProgress() is called
GetProgress ==
    /\ lastOp' = "getProgress"
    /\ fnRet' = getProgress(store, storeAvailable)
    /\ UNCHANGED <<loader, player, documentListeners, attempts, tracker, store, storeAvailable, mounted, docListener, dispListener,
                   h5pListenerRef, initTimeout, dispatcherReady, isListening,
                   delivered, fnArg>>

\* getProgressSummary() is called
GetProgressSummary ==
    /\ lastOp' = "getProgressSummary"
    /\ fnRet' = getProgressSummary(store, storeAvailable)
    /\ UNCHANGED <<loader, player, documentListeners, attempts, tracker, store, storeAvailable, mounted, docListener, dispListener,
                   h5pListenerRef, initTimeout, dispatcherReady, isListening,
                   delivered, fnArg>>

\* clearRecords() is called; it returns true, or false when removeItem threw
ClearRecords ==
    /\ lastOp' = "clearRecords"
    /\ store' = clearRecords(store, storeAvailable)
    /\ fnRet' = Bool(storeAvailable)
    /\ UNCHANGED <<loader, player, documentListeners, attempts, tracker, storeAvailable, mounted, docListener, dispListener,
                   h5pListenerRef, initTimeout, dispatcherReady, isListening,
                   delivered, fnArg>>

\* clearProgress() is called
ClearProgress ==
    /\ lastOp' = "clearProgress"
    /\ store' = clearProgress(store, storeAvailable)
    /\ fnRet' = Bool(storeAvailable)
    /\ UNCHANGED <<loader, player, documentListeners, attempts, tracker, storeAvailable, mounted, docListener, dispListener,
                   h5pListenerRef, initTimeout, dispatcherReady, isListening,
                   delivered, fnArg>>

DeliverDocument ==
    \E event \in DocumentEvents, okRecords, okProgress, okSummary \in BOOLEAN :
        DocumentXapiEvent(event, okRecords, okProgress, okSummary)

DeliverH5P ==
    \E event \in H5PEvents, okRecords, okProgress, okSummary \in BOOLEAN :
        H5PXapiEvent(event, okRecords, okProgress, okSummary)

Next ==
    \/ DispatcherAppears
    \/ Mount
    \/ RetryTimer
    \/ Unmount
    \/ DeliverDocument
    \/ DeliverH5P
    \/ GetRecords
    \/ GetProgress
    \/ GetProgressSummary
    \/ ClearRecords
    \/ ClearProgress

Spec == Init /\ [][Next]_vars


-----------------------------------------------------------------------------
(* extractActivitySlug and calculateCompletionPercentage on their own *)

MaxIdLen == 4
MaxRaw == 12
MaxMax == 10

IdAtoms == {"/", "a", "b", ":"}

RECURSIVE StringsUpTo(_)
\* the strings of at most n atoms
StringsUpTo(n) ==
    IF n = 0 THEN {<<>>}
    ELSE LET shorter == StringsUpTo(n - 1)
         IN  shorter \cup {Append(s, c) : s \in shorter, c \in IdAtoms}

IdStrings == StringsUpTo(MaxIdLen)

\* what a statement may carry as contentId and as object.id
ContentIds ==
    {Undef, Num(5), Str(<<>>), Str(<<"a">>), Str(<<"/", "a">>), Str(<<"b", "/">>)}
ObjectIds == {Undef, Num(5)} \cup {Str(s) : s \in IdStrings}

SlugInputs ==
    {Undef, Null}
    \cup {Stmt(c, Undef, o, VerbAnswered, NoResult) : c \in ContentIds, o \in ObjectIds}
    \cup {Stmt(Undef, c, Undef, VerbAnswered, NoResult) : c \in ContentIds}

OptionalNumbers(lo, hi) == {Undef} \cup {Num(n) : n \in lo..hi}

PercentageInputs ==
    {NoResult, Result(NoScore, Undef)}
    \cup {Result(Score(raw, max), Undef) :
            raw \in OptionalNumbers(0 - MaxRaw, MaxRaw),
            max \in OptionalNumbers(0 - MaxMax, MaxMax)}

Idle ==
    /\ storeAvailable = TRUE
    /\ store = [key \in Keys |-> Absent]
    /\ mounted = FALSE
    /\ docListener = FALSE
    /\ dispListener = FALSE
    /\ h5pListenerRef = FALSE
    /\ initTimeout = "none"
    /\ dispatcherReady = FALSE
    /\ isListening = FALSE
    /\ delivered = 0
    /\ lastOp = "none"
    /\ tracker = NoTracker
    /\ attempts = 0
    /\ documentListeners = <<>>
    /\ player = NoPlayer
    /\ loader = NoLoader

IdleUnchanged ==
    UNCHANGED <<loader, player, documentListeners, attempts, tracker, store, storeAvailable, mounted, docListener, dispListener,
                h5pListenerRef, initTimeout, dispatcherReady, isListening,
                delivered, lastOp, fnArg>>

InitSlug == Idle /\ fnArg \in SlugInputs /\ fnRet = Undef

CallExtractActivitySlug ==
    /\ fnRet = Undef
    /\ fnRet' = extractActivitySlug(fnArg)
    /\ IdleUnchanged

SpecSlug == InitSlug /\ [][CallExtractActivitySlug]_vars

InitPercentage == Idle /\ fnArg \in PercentageInputs /\ fnRet = Undef

CallCalculateCompletionPercentage ==
    /\ fnRet = Undef
    /\ fnRet' = Num(calculateCompletionPercentage(fnArg))
    /\ IdleUnchanged

SpecPercentage == InitPercentage /\ [][CallCalculateCompletionPercentage]_vars


-----------------------------------------------------------------------------
(* Properties of calculateCompletionPercentage and extractActivitySlug *)

Abs(n) == IF n < 0 THEN 0 - n ELSE n

\* out is an integer nearest to num / den
IsNearest(out, num, den) == 2 * Abs(num - out * den) <= Abs(den)

\* C4: calculateCompletionPercentage returns 0 when the result or its score
\* is absent, 0 when max is 0, and otherwise raw / max * 100 rounded to the
\* nearest integer, raw defaulting to 0 and max to 1; 8 of 10 gives 80 and
\* 1 of 0 gives 0.
C4_PercentageValue ==
    fnRet # Undef =>
        LET out == fnRet.n
        IN  IF fnArg.k = "undef" THEN out = 0
            ELSE IF fnArg.score.k = "undef" THEN out = 0
            ELSE LET raw == IF fnArg.score.raw = Undef THEN 0 ELSE fnArg.score.raw.n
                     max == IF fnArg.score.max = Undef THEN 1 ELSE fnArg.score.max.n
                 IN  /\ max = 0 => out = 0
                     /\ max # 0 => IsNearest(out, 100 * raw, max)
                     /\ raw = 8 /\ max = 10 => out = 80
                     /\ raw = 1 /\ max = 0 => out = 0

C4_Witness ==
    /\ fnArg = Result(Score(Num(8), Num(10)), Undef)
    /\ fnRet = Num(80)

\* the string is a '/'-separated path whose final segment, after the slash
\* at i, is a non-empty name of characters of [a-z0-9-]
FinalSegmentAt(s, i) ==
    /\ i \in 1..(Len(s) - 1)
    /\ s[i] = "/"
    /\ \A j \in (i + 1)..Len(s) : s[j] # "/" /\ s[j] \notin PunctAtoms

\* C5: with no context extension and an object id that is a '/'-separated
\* path ending in the activity name, extractActivitySlug returns that final
\* path segment.
C5_FinalSegment ==
    ( /\ fnRet # Undef
      /\ fnArg.k = "obj"
      /\ fnArg.contentId = Undef
      /\ fnArg.contentIdAlt = Undef
      /\ fnArg.objectId.k = "str" )
    => \A i \in 1..Len(fnArg.objectId.s) :
           FinalSegmentAt(fnArg.objectId.s, i)
           => fnRet = Str(SubSeq(fnArg.objectId.s, i + 1, Len(fnArg.objectId.s)))

\* a content id that ends in a slash followed by a non-empty segment
UsableContentId(v) ==
    /\ v.k = "str"
    /\ \E i \in 1..(Len(v.s) - 1) :
          v.s[i] = "/" /\ \A j \in (i + 1)..Len(v.s) : v.s[j] # "/"

\* an object id in which one of the two patterns finds something: it ends in
\* a character of [a-z0-9-], or in another character after some slash, or in
\* "/segment/"
UsableObjectId(v) ==
    /\ v.k = "str"
    /\ v.s # <<>>
    /\ LET s == v.s
           n == Len(s)
       IN  \/ s[n] # "/" /\ s[n] \notin PunctAtoms
           \/ s[n] # "/" /\ \E i \in 1..n : s[i] = "/"
           \/ /\ s[n] = "/"
              /\ \E i \in 1..(n - 2) :
                    s[i] = "/" /\ \A j \in (i + 1)..(n - 1) : s[j] # "/"

\* the content id the statement carries, by the two extension keys
CarriedContentId(statement) ==
    IF statement.contentId \in {Undef, Str(<<>>)} THEN statement.contentIdAlt
    ELSE statement.contentId

\* C6: extractActivitySlug never raises and returns a non-empty string for
\* every statement shape; it returns exactly 'unknown-activity' when the
\* statement is no object, when a content id or object id is present but no
\* string (the internal error), and when neither a usable content id nor a
\* usable object id is present.
C6_SlugTotal ==
    fnRet # Undef =>
        /\ fnRet.k = "str"
        /\ fnRet.s # <<>>
        /\ fnArg.k # "obj" => fnRet = Str(<<"unknown-activity">>)
        /\ fnArg.k = "obj" =>
             LET c == CarriedContentId(fnArg)
                 o == fnArg.objectId
             IN  /\ c.k = "num" => fnRet = Str(<<"unknown-activity">>)
                 /\ ~UsableContentId(c) /\ o.k = "num"
                       => fnRet = Str(<<"unknown-activity">>)
                 /\ ~UsableContentId(c) /\ ~UsableObjectId(o)
                       => fnRet = Str(<<"unknown-activity">>)

C6_Witness ==
    /\ fnArg.k = "obj"
    /\ fnArg.contentId = Num(5)
    /\ fnArg.objectId = Str(<<"/", "a", "/", "b">>)
    /\ fnRet = Str(<<"unknown-activity">>)


-----------------------------------------------------------------------------
(* Properties of the stored log, progress mapping and summary *)

Sources == {"document", "H5P.externalDispatcher"}

\* the handler that tags its records with source is registered
Registered(source) ==
    IF source = "document" THEN docListener ELSE dispListener

\* the storage after the registered handler of source has handled statement
AfterDelivery(statement, source, okR, okP, okS) ==
    HandleStatement(store, storeAvailable, statement, source, okR, okP, okS)

\* the progress mapping as an accessor reads it from the storage
ProgressOf(st, avail) ==
    IF getProgress(st, avail).k \in {"map", "arrprops"}
    THEN getProgress(st, avail).m
    ELSE EmptyMap

\* the log as an accessor reads it from the storage
LogOf(st, avail) ==
    IF getRecords(st, avail).k = "arr" THEN getRecords(st, avail).items ELSE <<>>

VerbEndsIn(statement, word) ==
    /\ statement.k = "obj"
    /\ statement.verb.k = "str"
    /\ Len(statement.verb.s) >= 2
    /\ statement.verb.s[Len(statement.verb.s)] = word
    /\ statement.verb.s[Len(statement.verb.s) - 1] = "/"

\* the handler gets as far as calling updateProgress(statement)
CallsUpdateProgress(st, avail, statement) ==
    statement.k = "obj" /\ getRecords(st, avail).k = "arr"

FieldBefore(m, slug, fresh) == IF slug \in DOMAIN m THEN m[slug] ELSE fresh

\* what C1 says of the progress mappings before and after the call
AnsweredEffect(before, after, slug) ==
    \A fresh \in {[questionsAnswered |-> 0, questionsCompleted |-> 0,
                    isCompleted |-> FALSE]} :
    \A old \in {FieldBefore(before, slug, fresh)} :
        /\ slug \in DOMAIN after
        /\ after[slug].questionsAnswered = old.questionsAnswered + 1
        /\ after[slug].questionsCompleted = old.questionsCompleted
        /\ after[slug].isCompleted = old.isCompleted
        /\ DOMAIN after = DOMAIN before \cup {slug}
        /\ \A other \in DOMAIN before \ {slug} : after[other] = before[other]

\* C1 as claimed: updateProgress on any statement whose verb ends in
\* /answered raises questionsAnswered of the statement's slug by exactly 1,
\* keeps isCompleted and questionsCompleted of that slug (false and 0 for a
\* new record), and changes no other slug's record.
C1_AnsweredAlways ==
    \A s \in Statements, okP, okS \in BOOLEAN :
        ( /\ docListener \/ dispListener
          /\ VerbEndsIn(s, "answered")
          /\ CallsUpdateProgress(store, storeAvailable, s) )
        => \A after \in {updateProgress(store, storeAvailable, s, okP, okS)} :
               AnsweredEffect(ProgressOf(store, storeAvailable),
                              ProgressOf(after, storeAvailable),
                              extractActivitySlug(s).s)

\* C1 as amended: the same, when the stored progress value is absent,
\* unparsable or a mapping and the storage accepts the write of the progress
\* mapping.
C1_AnsweredWhenStored ==
    \A s \in Statements, okS \in BOOLEAN :
        ( /\ docListener \/ dispListener
          /\ VerbEndsIn(s, "answered")
          /\ CallsUpdateProgress(store, storeAvailable, s)
          /\ storeAvailable
          /\ getProgress(store, storeAvailable).k = "map" )
        => \A after \in {updateProgress(store, storeAvailable, s, TRUE, okS)} :
               AnsweredEffect(ProgressOf(store, storeAvailable),
                              ProgressOf(after, storeAvailable),
                              extractActivitySlug(s).s)

\* an /answered statement of quiz-a was logged after its /completed one, and
\* the record counts one of each and is still completed
C1_Witness ==
    /\ Len(LogOf(store, storeAvailable)) = 2
    /\ LogOf(store, storeAvailable)[1].statement = StmtA(VerbCompleted, R80)
    /\ LogOf(store, storeAvailable)[2].statement = StmtA(VerbAnswered, R80)
    /\ SlugA \in DOMAIN ProgressOf(store, storeAvailable)
    /\ ProgressOf(store, storeAvailable)[SlugA].questionsAnswered = 1
    /\ ProgressOf(store, storeAvailable)[SlugA].questionsCompleted = 1
    /\ ProgressOf(store, storeAvailable)[SlugA].isCompleted

IsCompletedIn(m, slug) == slug \in DOMAIN m /\ m[slug].isCompleted

\* isCompleted of a slug, once true, is true after every step that is not
\* clearProgress
CompletedStays ==
    \A slug \in DOMAIN ProgressOf(store, storeAvailable) :
        ( /\ IsCompletedIn(ProgressOf(store, storeAvailable), slug)
          /\ lastOp' # "clearProgress" )
        => IsCompletedIn(ProgressOf(store', storeAvailable), slug)

\* isCompleted of the slug is true once the handler has handled any
\* /completed statement
CompletedSet(okPs) ==
    \A s \in Statements, source \in Sources, okR, okS \in BOOLEAN, okP \in okPs :
        ( /\ Registered(source)
          /\ VerbEndsIn(s, "completed")
          /\ CallsUpdateProgress(store, storeAvailable, s)
          /\ okPs = {TRUE} =>
                storeAvailable /\ getProgress(store, storeAvailable).k = "map" )
        => IsCompletedIn(ProgressOf(AfterDelivery(s, source, okR, okP, okS),
                                    storeAvailable),
                         extractActivitySlug(s).s)

\* C2 as claimed: once a statement whose verb ends in /completed has been
\* ingested for a slug, isCompleted of that slug is true, and it stays true
\* after every later step for as long as clearProgress is not called.
C2_CompletedAlways == [](CompletedSet(BOOLEAN)) /\ [][CompletedStays]_vars

\* C2 as amended: the same, for a /completed statement ingested while the
\* stored progress value is absent, unparsable or a mapping and whose write
\* of the progress mapping the storage accepts.
C2_CompletedWhenStored == [](CompletedSet({TRUE})) /\ [][CompletedStays]_vars

\* quiz-a was completed and a statement of the other activity came after it
C2_Witness ==
    /\ Len(LogOf(store, storeAvailable)) = 2
    /\ LogOf(store, storeAvailable)[1].statement = StmtA(VerbCompleted, R80)
    /\ LogOf(store, storeAvailable)[2].statement = StmtB(VerbCompleted, R150)
    /\ IsCompletedIn(ProgressOf(store, storeAvailable), SlugA)
    /\ IsCompletedIn(ProgressOf(store, storeAvailable), SlugB)

\* C3: in every reachable state every Activity Progress Record has a
\* completionPercentage within [0,100], whatever raw and max the ingested
\* statements carry.
C3_PercentageInRange ==
    \A slug \in DOMAIN ProgressOf(store, storeAvailable) :
        ProgressOf(store, storeAvailable)[slug].completionPercentage \in 0..100

\* C3 does not hold: the stored record of quiz-b carries 150
C3_Witness ==
    /\ SlugB \in DOMAIN ProgressOf(store, storeAvailable)
    /\ ProgressOf(store, storeAvailable)[SlugB].completionPercentage = 150

-----------------------------------------------------------------------------
(* Properties of the accessors *)

Reads == {"getRecords", "getProgress", "getProgressSummary"}

\* the value a read of key cannot get: the storage throws, or holds nothing
\* or no JSON text under key
Unreadable(key) == ~storeAvailable \/ store[key] \in {Absent, Garbage}

\* what the last call returned is no exception, and is the accessor's
\* fallback when the stored value cannot be read
ReadFallsBack ==
    /\ lastOp \in Reads => fnRet # Threw
    /\ lastOp = "getRecords" /\ Unreadable(XAPI_RECORDS_KEY)
          => fnRet = JArr(<<>>)
    /\ lastOp = "getProgress" /\ Unreadable(PROGRESS_KEY)
          => fnRet = JMap(EmptyMap)
    /\ lastOp = "getProgressSummary" /\ Unreadable(PROGRESS_SUMMARY_KEY)
          => fnRet = DefaultSummary

\* a step that is a read leaves the storage as it was
ReadKeepsStore == lastOp' \in Reads => store' = store

\* C7: getRecords, getProgress and getProgressSummary never raise; each
\* returns its fallback (empty sequence, empty mapping, zeroed summary) when
\* the stored value is absent or unparsable or the storage throws, and the
\* read leaves the stored values unchanged.
C7_ReadsFallBack == []ReadFallsBack /\ [][ReadKeepsStore]_vars

\* getProgress() has returned the empty mapping over an unparsable stored
\* value, after an event was handled
C7_Witness ==
    /\ lastOp = "getProgress"
    /\ storeAvailable
    /\ store[PROGRESS_KEY] = Garbage
    /\ delivered > 0
    /\ fnRet = JMap(EmptyMap)

-----------------------------------------------------------------------------
(* Properties of the summary *)

\* r is num / den rounded to the nearest integer, halves upwards (den > 0)
IsRounded(r, num, den) ==
    /\ 2 * den * r <= 2 * num + den
    /\ 2 * num + den < 2 * den * (r + 1)

\* summary is the function of the mapping m that C8 describes
IsSummaryOf(summary, m) ==
    LET completed == {s \in DOMAIN m : m[s].isCompleted}
        scoring == {s \in completed : m[s].completionPercentage > 0}
    IN  /\ summary.totalActivities = Cardinality(DOMAIN m)
        /\ summary.completedActivities = Cardinality(completed)
        /\ IF DOMAIN m = {} THEN summary.completionRate = 0
           ELSE IsRounded(summary.completionRate,
                          100 * Cardinality(completed), Cardinality(DOMAIN m))
        /\ IF scoring = {} THEN summary.averageScorePercent = 0
           ELSE IsRounded(summary.averageScorePercent,
                          SumOver(m, scoring), Cardinality(scoring))

\* m holds two records, one completed at 80 and one not completed
IsExample(m) ==
    /\ Cardinality(DOMAIN m) = 2
    /\ \E a \in DOMAIN m :
          /\ m[a].isCompleted
          /\ m[a].completionPercentage = 80
          /\ \A b \in DOMAIN m \ {a} : ~m[b].isCompleted

SummaryFields(summary) ==
    <<summary.totalActivities, summary.completedActivities,
      summary.completionRate, summary.averageScorePercent>>

\* C8: the summary updateProgress writes for a qualifying statement is this
\* function of the whole progress mapping it has just updated:
\* totalActivities the number of records, completedActivities the number
\* with isCompleted, completionRate round(100 * completed / total) or 0
\* without records, averageScorePercent the rounded mean of
\* completionPercentage over the completed records with a positive
\* completionPercentage or 0 without any; one completed record at 80 and one
\* not completed give 2, 1, 50, 80.
C8_SummaryWritten ==
    \A s \in Statements, okP \in BOOLEAN :
        ( /\ docListener \/ dispListener
          /\ storeAvailable
          /\ CallsUpdateProgress(store, storeAvailable, s)
          /\ ReachesUpdate(store, storeAvailable, s) )
        => \A after \in {updateProgress(store, storeAvailable, s, okP, TRUE)} :
           \A m \in {UpdatedProgress(store, storeAvailable, s).m} :
               /\ after[PROGRESS_SUMMARY_KEY].k = "json"
               /\ IsSummaryOf(after[PROGRESS_SUMMARY_KEY].v, m)
               /\ okP /\ getProgress(store, storeAvailable).k = "map"
                     => m = ProgressOf(after, storeAvailable)
               /\ IsExample(m)
                     => SummaryFields(after[PROGRESS_SUMMARY_KEY].v)
                            = <<2, 1, 50, 80>>

\* the stored summary reads 2, 1, 50, 80 over quiz-a completed at 80 and
\* quiz-b answered and not completed
C8_Witness ==
    /\ storeAvailable
    /\ DOMAIN ProgressOf(store, storeAvailable) = {SlugA, SlugB}
    /\ IsExample(ProgressOf(store, storeAvailable))
    /\ getProgressSummary(store, storeAvailable).lastUpdated = Stamp
    /\ SummaryFields(getProgressSummary(store, storeAvailable)) = <<2, 1, 50, 80>>

-----------------------------------------------------------------------------
(* Properties of the log *)

\* the last element of the log in st carries statement and source
LastRecordIs(st, statement, source) ==
    \A log \in {LogOf(st, storeAvailable)} :
        /\ log # <<>>
        /\ log[Len(log)].statement = statement
        /\ log[Len(log)].source = source

\* the statement is a JSON value: JSON text gives it back as it was
IsJSONValue(statement) == StatementAsJSON(statement) = statement

\* the stored log can take the record and the storage takes the log
LogWritable == storeAvailable /\ getRecords(store, storeAvailable).k = "arr"

\* after either handler has handled an event with a statement, getRecords()
\* ends in a record with that statement and the handler's source
RoundTrip(okRs, jsonOnly) ==
    /\ \A event \in DocumentEvents, okR \in okRs, okP, okS \in BOOLEAN :
          ( /\ docListener
            /\ Truthy(DocumentStatementOf(event))
            /\ jsonOnly => LogWritable /\ IsJSONValue(DocumentStatementOf(event)) )
          => LastRecordIs(handleDocumentXapiEvent(store, storeAvailable, event,
                                                  okR, okP, okS),
                          DocumentStatementOf(event), "document")
    /\ \A event \in H5PEvents, okR \in okRs, okP, okS \in BOOLEAN :
          ( /\ dispListener
            /\ Truthy(H5PStatementOf(event))
            /\ jsonOnly => LogWritable /\ IsJSONValue(H5PStatementOf(event)) )
          => LastRecordIs(handleH5PXapiEvent(store, storeAvailable, event,
                                             okR, okP, okS),
                          H5PStatementOf(event), "H5P.externalDispatcher")

\* C9 as claimed: after a statement is ingested through either ingress path,
\* getRecords() returns a sequence whose last element has that statement and
\* the source 'document' or 'H5P.externalDispatcher' of the path.
C9_RoundTripAlways == RoundTrip(BOOLEAN, FALSE)

\* C9 as amended: the same, for a statement that is a JSON value, ingested
\* while the stored log is absent, unparsable or an array and the storage
\* accepts the write of the log.
C9_RoundTripWhenStored == RoundTrip({TRUE}, TRUE)

\* the log ends in a statement the dispatcher path ingested after one of the
\* document path
C9_Witness ==
    /\ Len(LogOf(store, storeAvailable)) = 2
    /\ LogOf(store, storeAvailable)[1].source = "document"
    /\ LogOf(store, storeAvailable)[2] =
          LogRecord(StmtA(VerbCompleted, R80), "H5P.externalDispatcher")

-----------------------------------------------------------------------------
(* Properties of clearRecords and clearProgress *)

\* C10: after clearRecords(), getRecords() returns the empty sequence; after
\* clearProgress(), getProgress() returns the empty mapping and
\* getProgressSummary() the zeroed default with lastUpdated null; from any
\* prior state.
C10_ClearsEmpty ==
    /\ lastOp = "clearRecords"
          => getRecords(store, storeAvailable) = JArr(<<>>)
    /\ lastOp = "clearProgress"
          => /\ getProgress(store, storeAvailable) = JMap(EmptyMap)
             /\ getProgressSummary(store, storeAvailable) = DefaultSummary

\* clearProgress() has returned true after two statements were ingested
C10_Witness ==
    /\ lastOp = "clearProgress"
    /\ fnRet = Bool(TRUE)
    /\ Len(LogOf(store, storeAvailable)) = 2
    /\ LogOf(store, storeAvailable)[1].statement = StmtA(VerbCompleted, R80)
    /\ store[PROGRESS_KEY] = Absent
    /\ store[PROGRESS_SUMMARY_KEY] = Absent

-----------------------------------------------------------------------------
(* Properties of the order of the log *)

\* the step leaves the log as getRecords() reads it, or adds one record at
\* its end: a statement of an event, tagged with a handler that was
\* registered
LogGrows ==
    \A log \in {LogOf(store, storeAvailable)} :
    \A log2 \in {LogOf(store', storeAvailable)} :
        \/ log2 = log
        \/ /\ Len(log2) = Len(log) + 1
           /\ SubSeq(log2, 1, Len(log)) = log
           /\ log2[Len(log2)].source \in Sources
           /\ Registered(log2[Len(log2)].source)
           /\ log2[Len(log2)].statement \in {StatementAsJSON(s) : s \in Statements}

\* C11: with no clearRecords in between, the log before each step is a
\* prefix of the log after it: entries are never changed, dropped or
\* reordered, and a delivered event adds at most its own record, at the end,
\* so entries are in the order of delivery.
C11_AppendOnly == [][lastOp' # "clearRecords" => LogGrows]_vars

\* the log holds two different statements in the order they were delivered
C11_Witness ==
    /\ Len(LogOf(store, storeAvailable)) = 2
    /\ LogOf(store, storeAvailable)[1] =
          LogRecord(StmtB(VerbAnswered, NoResult), "H5P.externalDispatcher")
    /\ LogOf(store, storeAvailable)[2] =
          LogRecord(StmtA(VerbAnswered, R80), "document")

-----------------------------------------------------------------------------
(* Properties of statements that updateProgress does not track *)

\* the verb is absent or ends in neither /answered nor /completed
Untracked(statement) ==
    ~VerbEndsIn(statement, "answered") /\ ~VerbEndsIn(statement, "completed")

\* statements without a verb, with a verb id that is no string, and with
\* verb ids that contain a tracked word without ending in it
UntrackedSamples ==
    { StmtB(Undef, NoResult),
      StmtA(Num(7), R80),
      StmtA(Str(<<"verbs", "/", "interacted">>), R80),
      StmtA(Str(<<"answered">>), R80),
      StmtB(Str(<<"verbs", "/", "completed", "/", "x">>), R150) }

\* the handler of source, given statement, adds its record to the log
\* (when mustAppend) and leaves the stored progress mapping and summary
AppendsOnly(statement, source, okR, okP, okS, mustAppend) ==
    \A after \in {AfterDelivery(statement, source, okR, okP, okS)} :
        /\ after[PROGRESS_KEY] = store[PROGRESS_KEY]
        /\ after[PROGRESS_SUMMARY_KEY] = store[PROGRESS_SUMMARY_KEY]
        /\ mustAppend =>
              LogOf(after, storeAvailable) =
                  Append(LogOf(store, storeAvailable),
                         LogRecord(StatementAsJSON(statement), source))

\* C12 as claimed: ingesting a statement whose verb is absent or ends in
\* neither /answered nor /completed appends one record to the log and leaves
\* the stored progress mapping and the stored summary unchanged, creating no
\* record for its slug.
C12_UntrackedAlways ==
    \A s \in Statements \cup UntrackedSamples, source \in Sources,
       okR, okP, okS \in BOOLEAN :
        Registered(source) /\ Untracked(s)
        => AppendsOnly(s, source, okR, okP, okS, TRUE)

\* C12 as amended: such a statement always leaves the stored progress
\* mapping and summary unchanged, and appends one record to the log when the
\* stored log is absent, unparsable or an array and the storage accepts the
\* write of the log.
C12_UntrackedWhenStored ==
    \A s \in Statements \cup UntrackedSamples, source \in Sources,
       okR, okP, okS \in BOOLEAN :
        Registered(source) /\ Untracked(s)
        => AppendsOnly(s, source, okR, okP, okS, LogWritable /\ okR)

\* an /attempted statement of quiz-b was logged after quiz-a was completed,
\* and quiz-b has no progress record
C12_Witness ==
    /\ Len(LogOf(store, storeAvailable)) = 2
    /\ LogOf(store, storeAvailable)[1].statement = StmtA(VerbCompleted, R80)
    /\ LogOf(store, storeAvailable)[2].statement =
          StatementAsJSON(WithDate(StmtB(VerbAttempted, NoResult)))
    /\ DOMAIN ProgressOf(store, storeAvailable) = {SlugA}
    /\ getProgressSummary(store, storeAvailable).totalActivities = 1

-----------------------------------------------------------------------------
(* Properties of repeated events *)

\* the statement is one updateProgress tracks
Tracked(statement) ==
    VerbEndsIn(statement, "answered") \/ VerbEndsIn(statement, "completed")

\* the storage after the handler of source has handled statement on st, all
\* writes accepted
Delivered(st, statement, source) ==
    HandleStatement(st, storeAvailable, statement, source, TRUE, TRUE, TRUE)

\* C13: delivering the same qualifying statement a second time, on the same
\* ingress path or on the other one, leaves the slug's progress record and
\* the summary counts as they were after the first delivery.
C13_Idempotent ==
    \A s \in Statements, first, second \in Sources :
        ( /\ Registered(first)
          /\ Registered(second)
          /\ Tracked(s)
          /\ LogWritable
          /\ getProgress(store, storeAvailable).k = "map" )
        => \A once \in {Delivered(store, s, first)} :
           \A twice \in {Delivered(once, s, second)} :
               /\ ProgressOf(twice, storeAvailable)[extractActivitySlug(s).s]
                     = ProgressOf(once, storeAvailable)[extractActivitySlug(s).s]
               /\ SummaryFields(getProgressSummary(twice, storeAvailable))
                     = SummaryFields(getProgressSummary(once, storeAvailable))

\* the same /answered statement of quiz-a was delivered on each of the two
\* ingress paths and is counted twice
C13_Witness ==
    /\ Len(LogOf(store, storeAvailable)) = 2
    /\ LogOf(store, storeAvailable)[1] =
          LogRecord(StmtA(VerbAnswered, R80), "H5P.externalDispatcher")
    /\ LogOf(store, storeAvailable)[2] =
          LogRecord(StmtA(VerbAnswered, R80), "document")
    /\ SlugA \in DOMAIN ProgressOf(store, storeAvailable)
    /\ ProgressOf(store, storeAvailable)[SlugA].questionsAnswered = 2

-----------------------------------------------------------------------------
(* Properties of the listener life cycle *)

\* C14: isListening is true only where both the document listener and the
\* dispatcher listener are registered, so not while the attachment to the
\* dispatcher is pending or abandoned, and it is false after teardown.
C14_ListeningBoth ==
    /\ isListening => docListener /\ dispListener
    /\ ~mounted => ~isListening

\* isListening is true although the retry has fired without a dispatcher
C14_Witness ==
    /\ isListening
    /\ docListener
    /\ ~dispListener
    /\ ~dispatcherReady
    /\ initTimeout = "fired"

-----------------------------------------------------------------------------
(* utils/simpleXAPITracker: SimpleXAPITracker and its singleton.  The       *)
(* tracker keeps its own four keys in localStorage; store holds them in the *)
(* specification SpecTracker.  uuidv4() is a counter of fresh ids.  The     *)
(* credentials of XAPI_CONFIG are taken to be Latin-1 and the statements    *)
(* free of cycles, so that btoa and JSON.stringify in sendStatement return. *)

SESSION_KEY == "xapi_session_data"
STATEMENTS_KEY == "xapi_statements"
ANSWERS_KEY == "xapi_answer_tracking"
ACTOR_KEY == "xapi_actor_info"
TrackerKeys == {SESSION_KEY, STATEMENTS_KEY, ANSWERS_KEY, ACTOR_KEY}

\* XAPI_CONFIG.endpoint: 'console' unless VITE_XAPI_ENDPOINT is set
Endpoints == {"console", "lrs"}

COMPLETED == "verbs/completed"
ANSWERED == "verbs/answered"
ATTEMPTED == "verbs/attempted"
INTERACTED == "verbs/interacted"

\* the session object saveSessionToLocalStorage writes
SessionData(sessionId, isEnabled) ==
    [k |-> "session", sessionId |-> sessionId, isEnabled |-> isEnabled]

\* createStatement(actor, verb, object, result, context)
createStatement(verb, result, sessionId) ==
    [k |-> "stmt", verb |-> verb, result |-> result, registration |-> sessionId]

\* an element of this.statements
StatementEntry(statement, eventType) ==
    [statement |-> statement, eventType |-> eventType]

\* saveSessionToLocalStorage(force)
saveSessionToLocalStorage(st, avail, sessionId, isEnabled, force, accepted) ==
    IF avail /\ (force \/ st[SESSION_KEY].k = "absent") /\ accepted
    THEN [st EXCEPT ![SESSION_KEY] = Text(SessionData(sessionId, isEnabled))]
    ELSE st

\* saveStatementsToLocalStorage()
saveStatementsToLocalStorage(st, avail, statements, accepted) ==
    IF avail /\ accepted
    THEN [st EXCEPT ![STATEMENTS_KEY] = JSONstringify(JArr(statements))]
    ELSE st

\* saveAnswersToLocalStorage()
saveAnswersToLocalStorage(st, avail, answers, accepted) ==
    IF avail /\ accepted
    THEN [st EXCEPT ![ANSWERS_KEY] = Text(JArr(answers))]
    ELSE st

\* data ? JSON.parse(data) : fallback, for the value stored under key
ParseOr(st, key, fallback) ==
    IF st[key].k = "absent" THEN fallback ELSE JSONparse(st[key])

\* the catch branch of loadFromLocalStorage: a new session and empty lists
LoadDefaults(st, id, used) ==
    [sessionId |-> id + used, isEnabled |-> TRUE,
     statements |-> JArr(<<>>), answerTrackingData |-> JArr(<<>>),
     used |-> used + 1, store |-> st]

\* a loadFromLocalStorage that starts a new session whatever is stored
loadFromLocalStorageNewSession(st, avail, id, accepted) == LoadDefaults(st, id, 0)

\* loadFromLocalStorage(): the fields it sets, the number of uuidv4() calls
\* it made (id is the first fresh id) and the storage afterwards
loadFromLocalStorage(st, avail, id, accepted) ==
    IF ~avail THEN LoadDefaults(st, id, 0)
    ELSE IF st[SESSION_KEY].k # "absent" /\ JSONparse(st[SESSION_KEY]).k # "session"
    THEN LoadDefaults(st, id, 0)
    ELSE LET stored == st[SESSION_KEY].k # "absent"
             sessionId == IF stored THEN st[SESSION_KEY].v.sessionId ELSE id
             isEnabled == IF stored THEN st[SESSION_KEY].v.isEnabled ELSE TRUE
             used == IF stored THEN 0 ELSE 1
             st2 == IF stored THEN st
                    ELSE saveSessionToLocalStorage(st, avail, id, TRUE, FALSE, accepted)
             statements == ParseOr(st2, STATEMENTS_KEY, JArr(<<>>))
             answers == ParseOr(st2, ANSWERS_KEY, JArr(<<>>))
         IN  IF \/ st2[ACTOR_KEY].k = "garbage"
                \/ statements.k = "threw"
                \/ answers.k = "threw"
             THEN LoadDefaults(st2, id, used)
             ELSE [sessionId |-> sessionId, isEnabled |-> isEnabled,
                   statements |-> statements, answerTrackingData |-> answers,
                   used |-> used, store |-> st2]

\* Array.isArray(value) ? value : []
ArrayOr(value) == IF value.k = "arr" THEN value.items ELSE <<>>

\* new SimpleXAPITracker(): the object, built over the page's counters old
constructor(old, st, avail, okLoad, okForce) ==
    LET l == loadFromLocalStorage(st, avail, old.nextId, okLoad)
        st2 == saveSessionToLocalStorage(l.store, avail, l.sessionId,
                                         l.isEnabled, TRUE, okForce)
    IN  [t |-> [live |-> TRUE, endpoint |-> old.endpoint,
                sessionId |-> l.sessionId, isEnabled |-> l.isEnabled,
                statements |-> ArrayOr(l.statements),
                answerTrackingData |-> ArrayOr(l.answerTrackingData),
                nextId |-> old.nextId + l.used,
                sends |-> old.sends, pending |-> 0,
                calls |-> old.calls, loads |-> old.loads + 1],
         store |-> st2]

\* the stored statement list holds entry
IsPersisted(st, avail, entry) ==
    /\ avail
    /\ st[STATEMENTS_KEY].k = "json"
    /\ st[STATEMENTS_KEY].v.k = "arr"
    /\ \E i \in DOMAIN st[STATEMENTS_KEY].v.items :
          st[STATEMENTS_KEY].v.items[i] = entry

\* what is known of a request when fetch() starts it: its statement, whether
\* this.statements and the stored list hold it, and whether setItem returned
Request(t, st, avail, entry, accepted) ==
    [statement |-> entry.statement,
     inMemory |-> \E i \in DOMAIN t.statements : t.statements[i] = entry,
     persisted |-> IsPersisted(st, avail, entry),
     saved |-> avail /\ accepted]

\* a sendStatement that starts the request before it keeps the statement
sendStatementPostsFirst(t, st, avail, statement, eventType, accepted) ==
    LET entry == StatementEntry(statement, eventType)
        t2 == [t EXCEPT !.statements = Append(@, entry)]
        st2 == saveStatementsToLocalStorage(st, avail, t2.statements, accepted)
    IN  IF t.endpoint = "console" THEN [t |-> t2, store |-> st2]
        ELSE [t |-> [t2 EXCEPT !.sends = Append(@, Request(t, st, avail, entry, accepted)),
                               !.pending = @ + 1],
              store |-> st2]

sendStatementAnyEndpoint(t, st, avail, statement, eventType, accepted) ==
    LET entry == StatementEntry(statement, eventType)
        t2 == [t EXCEPT !.statements = Append(@, entry)]
        st2 == saveStatementsToLocalStorage(st, avail, t2.statements, accepted)
    IN  [t |-> [t2 EXCEPT !.sends = Append(@, Request(t2, st2, avail, entry, accepted)),
                          !.pending = @ + 1],
         store |-> st2]

\* sendStatement(statement, eventType): push, save, then log or fetch
sendStatement(t, st, avail, statement, eventType, accepted) ==
    LET entry == StatementEntry(statement, eventType)
        t2 == [t EXCEPT !.statements = Append(@, entry)]
        st2 == saveStatementsToLocalStorage(st, avail, t2.statements, accepted)
    IN  IF t.endpoint = "console" THEN [t |-> t2, store |-> st2]
        ELSE [t |-> [t2 EXCEPT !.sends = Append(@, Request(t2, st2, avail, entry, accepted)),
                               !.pending = @ + 1],
              store |-> st2]

\* the tail of every track method: sendStatement, then save once more
SendAndSave(t, st, avail, statement, eventType, ok1, ok2) ==
    LET sent == sendStatement(t, st, avail, statement, eventType, ok1)
    IN  [t |-> sent.t,
         store |-> saveStatementsToLocalStorage(sent.store, avail,
                                                sent.t.statements, ok2)]

\* trackActivityStarted(activityId, activityName)
trackActivityStarted(t, st, avail, ok1, ok2) ==
    IF ~t.isEnabled THEN [t |-> t, store |-> st]
    ELSE SendAndSave(t, st, avail,
                     createStatement(ATTEMPTED, Undef, t.sessionId),
                     "activity-started", ok1, ok2)

\* value || null
OrNull(v) == IF Truthy(v) THEN v ELSE Null

\* the result object trackActivityCompleted puts in its statement
CompletedResult(result) ==
    [score |-> IF Truthy(result.score)
               THEN [raw |-> OrNull(result.score.raw), max |-> OrNull(result.score.max)]
               ELSE Undef,
     success |-> Truthy(result.success),
     completion |-> TRUE]

\* trackActivityCompleted(activityId, activityName, result)
trackActivityCompleted(t, st, avail, result, ok1, ok2) ==
    IF ~t.isEnabled THEN [t |-> t, store |-> st]
    ELSE SendAndSave(t, st, avail,
                     createStatement(IF Truthy(result.success) THEN COMPLETED
                                     ELSE ATTEMPTED,
                                     CompletedResult(result), t.sessionId),
                     "activity-completed", ok1, ok2)

\* trackQuestionAnswered(..., isCorrect, options)
trackQuestionAnswered(t, st, avail, isCorrect, okAnswers, ok1, ok2) ==
    IF ~t.isEnabled THEN [t |-> t, store |-> st]
    ELSE LET t2 == [t EXCEPT !.answerTrackingData =
                        Append(@, [sessionId |-> t.sessionId, isCorrect |-> isCorrect])]
             st2 == saveAnswersToLocalStorage(st, avail, t2.answerTrackingData,
                                              okAnswers)
             result == [success |-> isCorrect,
                        score |-> [raw |-> Num(IF Truthy(isCorrect) THEN 1 ELSE 0),
                                   max |-> Num(1)]]
         IN  SendAndSave(t2, st2, avail,
                         createStatement(ANSWERED, result, t.sessionId),
                         "question-answered", ok1, ok2)

\* trackInteraction(activityId, interactionType, interactionData)
trackInteraction(t, st, avail, ok1, ok2) ==
    IF ~t.isEnabled THEN [t |-> t, store |-> st]
    ELSE SendAndSave(t, st, avail,
                     createStatement(INTERACTED, Undef, t.sessionId),
                     "interaction", ok1, ok2)

\* clearTrackingData()
clearTrackingData(t, st, avail) ==
    [t |-> [t EXCEPT !.statements = <<>>, !.answerTrackingData = <<>>],
     store |-> IF avail
               THEN [st EXCEPT ![STATEMENTS_KEY] = Absent, ![ANSWERS_KEY] = Absent]
               ELSE st]

-----------------------------------------------------------------------------
(* components/H5PPlayer.jsx: the listener setupH5PEventListeners registers  *)

\* an 'xAPI' event of the player: its verb, whether it has the getScore and
\* getMaxScore helpers, the score and maximum (of the helpers, or of
\* result.score), and result.success
PlayerEvent(verb, helpers, score, maxScore, success) ==
    [verb |-> verb, helpers |-> helpers, score |-> score,
     maxScore |-> maxScore, success |-> success]

\* const score, maxScore, success of the listener
ScoreOf(event) == event.score
MaxScoreOf(event) ==
    IF event.helpers \/ event.maxScore # 0 THEN event.maxScore ELSE 1
SuccessOf(event) ==
    IF event.helpers
    THEN Bool(event.score = event.maxScore /\ MaxScoreOf(event) > 0)
    ELSE event.success

\* the listener's body for the verbs it tracks; the call of the missing
\* trackDetailedQuizAnswer raises a TypeError that its catch logs
playerListener(t, st, avail, event, okAnswers, ok1, ok2) ==
    IF event.verb = ANSWERED
    THEN trackQuestionAnswered(t, st, avail, SuccessOf(event), okAnswers, ok1, ok2)
    ELSE IF event.verb = COMPLETED
    THEN trackActivityCompleted(t, st, avail,
                                [success |-> SuccessOf(event),
                                 score |-> [k |-> "score",
                                            raw |-> Num(ScoreOf(event)),
                                            max |-> Num(MaxScoreOf(event))]],
                                ok1, ok2)
    ELSE IF event.verb = INTERACTED
    THEN trackInteraction(t, st, avail, ok1, ok2)
    ELSE [t |-> t, store |-> st]

-----------------------------------------------------------------------------
(* the tracker's state machine *)

MaxCalls == 2
MaxLoads == 2

\* results a caller passes to trackActivityCompleted
CompletionResults ==
    { [success |-> Bool(TRUE),
       score |-> [k |-> "score", raw |-> Num(8), max |-> Num(10)]],
      [success |-> Bool(FALSE),
       score |-> [k |-> "score", raw |-> Num(0), max |-> Num(10)]] }

PlayerEvents ==
    { PlayerEvent(COMPLETED, TRUE, 10, 10, Undef),
      PlayerEvent(COMPLETED, TRUE, 3, 10, Bool(TRUE)),
      PlayerEvent(COMPLETED, FALSE, 0, 0, Undef),
      PlayerEvent(ANSWERED, FALSE, 1, 1, Bool(TRUE)),
      PlayerEvent(ATTEMPTED, FALSE, 0, 0, Undef) }

\* a statement an earlier page load has left in the storage
OldEntry ==
    StatementEntry(createStatement(INTERACTED, Undef, 0), "interaction")

OldSession(isEnabled) ==
    [key \in TrackerKeys |->
        IF key = SESSION_KEY THEN Text(SessionData(0, isEnabled))
        ELSE IF key = STATEMENTS_KEY THEN Text(JArr(<<OldEntry>>))
        ELSE Absent]

\* the storage the page finds: empty, with the data of an earlier session,
\* or with one of its values damaged
InitialTrackerStores ==
    { [key \in TrackerKeys |-> Absent],
      OldSession(TRUE),
      OldSession(FALSE),
      [OldSession(TRUE) EXCEPT ![STATEMENTS_KEY] = Garbage],
      [OldSession(TRUE) EXCEPT ![STATEMENTS_KEY] = Text(Null)],
      [OldSession(TRUE) EXCEPT ![ACTOR_KEY] = Garbage],
      [OldSession(TRUE) EXCEPT ![SESSION_KEY] = Garbage],
      [OldSession(TRUE) EXCEPT ![SESSION_KEY] = Text(Null)] }

InitTracker ==
    /\ storeAvailable \in BOOLEAN
    /\ store \in InitialTrackerStores
    /\ storeAvailable \/ \A key \in TrackerKeys : store[key] = Absent
    /\ \E endpoint \in Endpoints :
          tracker = [live |-> FALSE, endpoint |-> endpoint, nextId |-> 1,
                     sends |-> <<>>, calls |-> 0, loads |-> 0]
    /\ mounted = FALSE
    /\ docListener = FALSE
    /\ dispListener = FALSE
    /\ h5pListenerRef = FALSE
    /\ initTimeout = "none"
    /\ attempts = 0
    /\ documentListeners = <<>>
    /\ player = NoPlayer
    /\ loader = NoLoader
    /\ dispatcherReady = FALSE
    /\ isListening = FALSE
    /\ delivered = 0
    /\ lastOp = "none"
    /\ fnArg = Undef
    /\ fnRet = Undef

HookUnchanged ==
    UNCHANGED <<loader, player, documentListeners, attempts, storeAvailable, mounted, docListener, dispListener,
                h5pListenerRef, initTimeout, dispatcherReady, isListening,
                delivered, fnArg, fnRet>>

\* the page is loaded or reloaded: the module creates its singleton
LoadPage(okLoad, okForce) ==
    /\ tracker.loads < MaxLoads
    /\ LET made == constructor(tracker, store, storeAvailable, okLoad, okForce)
       IN  tracker' = made.t /\ store' = made.store
    /\ lastOp' = "none"
    /\ HookUnchanged

\* a track method has run and returned r
Called(r) ==
    /\ tracker' = [r.t EXCEPT !.calls = @ + 1]
    /\ store' = r.store
    /\ lastOp' = "none"
    /\ HookUnchanged

CanCall == tracker.live /\ tracker.calls < MaxCalls

TrackActivityStarted(ok1, ok2) ==
    /\ CanCall
    /\ Called(trackActivityStarted(tracker, store, storeAvailable, ok1, ok2))

TrackActivityCompleted(result, ok1, ok2) ==
    /\ CanCall
    /\ Called(trackActivityCompleted(tracker, store, storeAvailable, result, ok1, ok2))

TrackQuestionAnswered(isCorrect, okAnswers, ok1, ok2) ==
    /\ CanCall
    /\ Called(trackQuestionAnswered(tracker, store, storeAvailable, isCorrect,
                                    okAnswers, ok1, ok2))

TrackInteraction(ok1, ok2) ==
    /\ CanCall
    /\ Called(trackInteraction(tracker, store, storeAvailable, ok1, ok2))

\* the player's dispatcher triggers 'xAPI' on the listener
PlayerXapiEvent(event, okAnswers, ok1, ok2) ==
    /\ CanCall
    /\ Called(playerListener(tracker, store, storeAvailable, event,
                             okAnswers, ok1, ok2))

\* the promise of a started fetch settles: response.ok, an HTTP error
\* status, or a rejection; each branch only logs.  lastOp is the outcome.
SendResolves(outcome) ==
    /\ tracker.live
    /\ tracker.pending > 0
    /\ tracker' = [tracker EXCEPT !.pending = @ - 1]
    /\ lastOp' = outcome
    /\ UNCHANGED store
    /\ HookUnchanged

ClearTrackingData ==
    /\ tracker.live
    /\ LET r == clearTrackingData(tracker, store, storeAvailable)
       IN  tracker' = r.t /\ store' = r.store
    /\ lastOp' = "none"
    /\ HookUnchanged

Outcomes == {"ok", "http-error", "network-error"}

NextTracker ==
    \/ \E okLoad, okForce \in BOOLEAN : LoadPage(okLoad, okForce)
    \/ \E ok1, ok2 \in BOOLEAN : TrackActivityStarted(ok1, ok2)
    \/ \E result \in CompletionResults, ok1, ok2 \in BOOLEAN :
          TrackActivityCompleted(result, ok1, ok2)
    \/ \E isCorrect, okAnswers, ok1, ok2 \in BOOLEAN :
          TrackQuestionAnswered(Bool(isCorrect), okAnswers, ok1, ok2)
    \/ \E ok1, ok2 \in BOOLEAN : TrackInteraction(ok1, ok2)
    \/ \E event \in PlayerEvents, okAnswers, ok1, ok2 \in BOOLEAN :
          PlayerXapiEvent(event, okAnswers, ok1, ok2)
    \/ \E outcome \in Outcomes : SendResolves(outcome)
    \/ ClearTrackingData

SpecTracker == InitTracker /\ [][NextTracker]_vars

-----------------------------------------------------------------------------
(* Properties of the simple tracker *)

\* every request was started with its statement in this.statements and, for
\* every write (anyWrite) or the accepted ones, in the stored list
SentAfterKept(anyWrite) ==
    \A i \in DOMAIN tracker.sends :
        /\ tracker.sends[i].inMemory
        /\ anyWrite \/ tracker.sends[i].saved => tracker.sends[i].persisted

\* a step in which a request settles leaves the stored values and
\* this.statements as they were
SettlingKeeps ==
    lastOp' \in Outcomes => store' = store /\ tracker'.statements = tracker.statements

HoldsSession ==
    /\ storeAvailable
    /\ store[SESSION_KEY].k = "json"
    /\ store[SESSION_KEY].v.k = "session"

\* the values under the other keys are absent or parse as JSON
OthersReadable ==
    \A key \in TrackerKeys \ {SESSION_KEY} : store[key].k \in {"absent", "json"}

\* the step constructs a tracker
Reloads == tracker'.loads = tracker.loads + 1

\* the new tracker has the stored sessionId, statements and answers, and the
\* stored values are as they were
Adopts ==
    /\ tracker'.sessionId = store[SESSION_KEY].v.sessionId
    /\ tracker'.statements = ArrayOr(ParseOr(store, STATEMENTS_KEY, JArr(<<>>)))
    /\ tracker'.answerTrackingData = ArrayOr(ParseOr(store, ANSWERS_KEY, JArr(<<>>)))
    /\ store' = store

\* the new tracker starts a session of its own with empty lists
StartsAfresh ==
    /\ tracker'.sessionId = tracker.nextId
    /\ tracker'.statements = <<>>
    /\ tracker'.answerTrackingData = <<>>

\* between page loads the sessionId and the stored session stay as they are,
\* clearTrackingData included
SessionKept ==
    tracker.live /\ ~Reloads =>
        /\ tracker'.sessionId = tracker.sessionId
        /\ store'[SESSION_KEY] = store[SESSION_KEY]

\* C17 as claimed: when local storage holds session data, a newly
\* constructed tracker adopts the stored sessionId, statements and answers,
\* and the sessionId is the same across reloads and clearTrackingData calls.
C17_AdoptsAlways ==
    [][(Reloads /\ HoldsSession => Adopts) /\ SessionKept]_vars

\* C17 as amended: the stored session is adopted when the values under the
\* statements, answers and actor keys are absent or parse; when one of them
\* does not parse the new tracker starts a new session with empty lists.
C17_AdoptsWhenReadable ==
    [][/\ Reloads /\ HoldsSession /\ OthersReadable => Adopts
       /\ Reloads /\ HoldsSession /\ ~OthersReadable => StartsAfresh
       /\ SessionKept]_vars

\* the second page load has adopted the session of an earlier visit with its
\* statement and one tracked since
C17_Witness ==
    /\ tracker.live
    /\ tracker.loads = MaxLoads
    /\ tracker.sessionId = 0
    /\ Len(tracker.statements) = 2
    /\ tracker.statements[1] = OldEntry
    /\ tracker.statements[2].statement.registration = 0

\* the entries trackActivityCompleted has put in this.statements
CompletionEntries ==
    IF tracker.live
    THEN {tracker.statements[i] : i \in {j \in DOMAIN tracker.statements :
              tracker.statements[j].eventType = "activity-completed"}}
    ELSE {}

\* C18: every 'completed' event handled by the player listener and every
\* trackActivityCompleted call on an enabled tracker leaves a statement whose
\* verb is '.../verbs/completed' and that carries the score, whatever the
\* score and the success value are.
C18_CompletedVerb ==
    \A entry \in CompletionEntries :
        /\ entry.statement.verb = COMPLETED
        /\ entry.statement.result.score # Undef
        /\ entry.statement.result.score.raw # Null

\* a completion without success has been tracked and stored
C18_Witness ==
    \E entry \in CompletionEntries :
        /\ ~entry.statement.result.success
        /\ IsPersisted(store, storeAvailable, entry)

-----------------------------------------------------------------------------
(* Properties of the hook: the stored summary and the dispatcher *)

\* the stored summary is the summary of the stored progress mapping; with no
\* summary stored, the stored mapping is empty
SummaryMatches(st) ==
    IF st[PROGRESS_SUMMARY_KEY] = Absent
    THEN ProgressOf(st, TRUE) = EmptyMap
    ELSE /\ st[PROGRESS_SUMMARY_KEY].k = "json"
         /\ IsSummaryOf(st[PROGRESS_SUMMARY_KEY].v, ProgressOf(st, TRUE))

\* C19 as claimed: the persisted summary equals the summary recomputed from
\* the persisted progress mapping in every state between handler steps; no
\* step, whichever of its writes is rejected, ends that.
C19_SummaryMatchesAlways ==
    [][storeAvailable /\ SummaryMatches(store) => SummaryMatches(store')]_vars

\* the stored summary counts an activity the stored progress does not hold
C19_Witness ==
    /\ storeAvailable
    /\ delivered > 0
    /\ store[PROGRESS_KEY] = Absent
    /\ store[PROGRESS_SUMMARY_KEY].k = "json"
    /\ store[PROGRESS_SUMMARY_KEY].v.totalActivities = 1

\* the step runs the effect
Mounts == ~mounted /\ mounted'

\* the step stays within one mount
WithinMount == mounted /\ mounted'

\* the step calls tryAttachH5PListener
Attempts == attempts' > attempts

\* C20: per mount the attachment to the dispatcher is attempted at most
\* twice, on mounting and when the 2 s timer fires, and is abandoned after
\* that; during a mount the handler once attached stays attached, and an
\* attempt is only made while no handler is attached, so that at most one
\* is registered.
C20_BoundedRetry ==
    /\ [](attempts <= 2)
    /\ [][/\ Attempts => Mounts \/ (WithinMount /\ initTimeout = "pending"
                                                /\ initTimeout' = "fired")
          /\ Attempts => ~dispListener /\ ~h5pListenerRef
          /\ ~dispListener /\ dispListener' => Attempts
          /\ WithinMount /\ dispListener => dispListener'
          /\ WithinMount /\ attempts = 2 => dispListener' = dispListener]_vars

\* both attempts of a mount have failed and the dispatcher, present since,
\* has no handler
C20_Witness ==
    /\ mounted
    /\ attempts = 2
    /\ initTimeout = "fired"
    /\ dispatcherReady
    /\ ~dispListener

\* the step runs the cleanup
Unmounts == mounted /\ ~mounted'

\* no listener is registered, no timer is set and nothing is attached
TornDown ==
    /\ ~docListener
    /\ ~dispListener
    /\ ~h5pListenerRef
    /\ initTimeout = "none"

\* C21: after the cleanup, whether it ran before the timer was set to fire,
\* after it fired or with the handler attached at once, the document
\* listener and the dispatcher listener are removed, the timer is cleared
\* and does not fire, nothing is attached, and until the next mount no event
\* changes the log, the progress mapping or the summary: only clearRecords
\* and clearProgress change the storage.
C21_TornDown ==
    /\ [](~mounted => TornDown)
    /\ [][/\ Unmounts => TornDown'
          /\ ~mounted /\ ~mounted' =>
                /\ attempts' = attempts
                /\ delivered' = delivered
                /\ lastOp' \notin {"clearRecords", "clearProgress"} => store' = store]_vars

\* the cleanup has run while the timer was pending, after an event was
\* ingested; the dispatcher has appeared since and has no handler
C21_Witness ==
    /\ ~mounted
    /\ delivered > 0
    /\ LogOf(store, storeAvailable) # <<>>
    /\ dispatcherReady
    /\ TornDown

\* the storage after the document handler has handled event holds one more
\* log record, of the event's statement with the source 'document', and,
\* for a verb that is tracked, the progress mapping updated by the statement
DocumentIngested(event, okR, okP, okS) ==
    \A s \in {DocumentStatementOf(event)} :
    \A after \in {handleDocumentXapiEvent(store, storeAvailable, event, okR, okP, okS)} :
        /\ LogOf(after, storeAvailable)
              = Append(LogOf(store, storeAvailable),
                       LogRecord(StatementAsJSON(s), "document"))
        /\ Qualifies(s) =>
              ProgressOf(after, storeAvailable)
                 = UpdatedProgress(store, storeAvailable, s).m

\* the stored log and the stored progress can take a new entry
StoreTakesEntries ==
    /\ LogWritable
    /\ getProgress(store, storeAvailable).k = "map"

\* while the hook is mounted the document listener is registered, whatever
\* the state of the dispatcher, and ingests every event with a statement
DocumentIngress(oks, anyStore) ==
    mounted =>
        /\ docListener
        /\ \A event \in DocumentEvents, okR, okP, okS \in oks :
              Truthy(DocumentStatementOf(event)) /\ (anyStore \/ StoreTakesEntries)
                 => DocumentIngested(event, okR, okP, okS)

\* C22 as claimed: from mount to teardown every document 'xAPI' event that
\* carries a statement is logged and aggregated, whether the dispatcher
\* handler was attached at once, on the retry, is pending or was abandoned.
C22_DocumentAlways == DocumentIngress(BOOLEAN, TRUE)

\* C22 as amended: the same while the stored log is absent, unparsable or an
\* array, the stored progress absent, unparsable or an object, and the
\* storage accepts the writes.
C22_DocumentWhenStored == DocumentIngress({TRUE}, FALSE)

\* the retry has been abandoned and the document path has since logged and
\* counted a statement
C22_Witness ==
    /\ mounted
    /\ initTimeout = "fired"
    /\ ~dispListener
    /\ LastRecordIs(store, StmtA(VerbAnswered, R80), "document")
    /\ SlugA \in DOMAIN ProgressOf(store, storeAvailable)
    /\ ProgressOf(store, storeAvailable)[SlugA].questionsAnswered = 1

\* the statements of Statements that updateProgress tracks
QualifyingStatements == {s \in Statements : Qualifies(s)}

\* a well-formed qualifying statement handled over the storage st, every
\* write accepted, is appended to the log and applied to the progress
NextIngested(st) ==
    \A s \in QualifyingStatements :
    \A after \in {HandleStatement(st, TRUE, s, "document", TRUE, TRUE, TRUE)} :
        /\ LogOf(after, TRUE)
              = Append(LogOf(st, TRUE), LogRecord(StatementAsJSON(s), "document"))
        /\ ReachesUpdate(st, TRUE, s)
        /\ ProgressOf(after, TRUE) = UpdatedProgress(st, TRUE, s).m

\* C23: after any event has been handled, also one whose handling failed on
\* a malformed statement or on a stored log or progress value that is
\* corrupt or of the wrong shape, both listeners are registered as before
\* and the next well-formed qualifying event is appended to the log and
\* applied to the progress.
C23_NextEventIngested ==
    [][delivered' = delivered + 1 /\ storeAvailable =>
          /\ docListener' = docListener
          /\ dispListener' = dispListener
          /\ NextIngested(store')]_vars

\* two events have been handled and the stored log, which parses to null,
\* has taken neither
C23_Witness ==
    /\ storeAvailable
    /\ delivered = 2
    /\ store[XAPI_RECORDS_KEY] = Text(Null)
    /\ docListener

\* lastScore, lastSuccess and completionPercentage of a record
ResultFields(rec) == <<rec.lastScore, rec.lastSuccess, rec.completionPercentage>>

\* after updateProgress(s) the three fields of the slug of s are those of
\* the result of s, or as before (0, false, 0 for a new record) when s has
\* no result, and the records of the other slugs are as before
LatestResultKept(before, after, s) ==
    \A slug \in {extractActivitySlug(s).s} :
        /\ slug \in DOMAIN after
        /\ ResultFields(after[slug]) =
              IF s.result.k = "obj"
              THEN <<LastScoreOf(s.result), LastSuccessOf(s.result),
                     calculateCompletionPercentage(s.result)>>
              ELSE IF slug \in DOMAIN before THEN ResultFields(before[slug])
              ELSE <<0, FALSE, 0>>
        /\ \A other \in DOMAIN before \ {slug} :
              other \in DOMAIN after /\ after[other] = before[other]

LatestResult(oks, anyStore) ==
    \A s \in QualifyingStatements, okP \in oks, okS \in BOOLEAN :
        ( /\ docListener \/ dispListener
          /\ CallsUpdateProgress(store, storeAvailable, s)
          /\ anyStore \/ (storeAvailable /\ getProgress(store, storeAvailable).k = "map") )
        => \A after \in {updateProgress(store, storeAvailable, s, okP, okS)} :
               LatestResultKept(ProgressOf(store, storeAvailable),
                                ProgressOf(after, storeAvailable), s)

\* C24 as claimed: after any delivered qualifying statement the slug's
\* lastScore, lastSuccess and completionPercentage are those derived from
\* the most recent qualifying statement of that slug that carried a result;
\* one without a result leaves them unchanged; other slugs are not affected.
C24_LatestResultAlways == LatestResult(BOOLEAN, TRUE)

\* C24 as amended: the same for the statements whose progress write the
\* storage accepts, the stored progress being absent, unparsable or an
\* object.
C24_LatestResultWhenStored == LatestResult({TRUE}, FALSE)

\* quiz-b was completed with a result and then answered without one, and
\* its record still has the fields of the first
C24_Witness ==
    /\ Len(LogOf(store, storeAvailable)) = 2
    /\ LogOf(store, storeAvailable)[1].statement = StmtB(VerbCompleted, R150)
    /\ LogOf(store, storeAvailable)[2].statement = StmtB(VerbAnswered, NoResult)
    /\ SlugB \in DOMAIN ProgressOf(store, storeAvailable)
    /\ ProgressOf(store, storeAvailable)[SlugB].questionsAnswered = 1
    /\ ResultFields(ProgressOf(store, storeAvailable)[SlugB])
          = <<15, FALSE, calculateCompletionPercentage(R150)>>

\* a rejected write of data under key returns false and leaves the storage
RejectedWriteKeeps(key, data) ==
    /\ ~safeStoreJSONResult(storeAvailable, FALSE)
    /\ safeStoreJSON(store, storeAvailable, key, data, FALSE) = store

\* the handler whose write of the log is rejected leaves the stored log and
\* goes on to updateProgress
HandlerCompletes(s, okP, okS) ==
    \A after \in {HandleStatement(store, storeAvailable, s, "document",
                                  FALSE, okP, okS)} :
        /\ after[XAPI_RECORDS_KEY] = store[XAPI_RECORDS_KEY]
        /\ CallsUpdateProgress(store, storeAvailable, s)
              => after = updateProgress(store, storeAvailable, s, okP, okS)

\* an updateProgress whose write of the progress is rejected leaves the
\* stored progress and goes on to store the summary
UpdateCompletes(s) ==
    \A after \in {updateProgress(store, storeAvailable, s, FALSE, TRUE)} :
        /\ after[PROGRESS_KEY] = store[PROGRESS_KEY]
        /\ storeAvailable /\ ReachesUpdate(store, storeAvailable, s)
              => /\ after[PROGRESS_SUMMARY_KEY].k = "json"
                 /\ IsSummaryOf(after[PROGRESS_SUMMARY_KEY].v,
                                UpdatedProgress(store, storeAvailable, s).m)

\* the step writes, under each key, nothing or what a handler computes from
\* the values stored before the step
FromPersisted ==
    /\ \/ store'[XAPI_RECORDS_KEY] = store[XAPI_RECORDS_KEY]
       \/ \E s \in Statements, source \in {"document", "H5P.externalDispatcher"} :
             /\ getRecords(store, storeAvailable).k = "arr"
             /\ store'[XAPI_RECORDS_KEY] =
                   JSONstringify(JArr(Append(getRecords(store, storeAvailable).items,
                                             LogRecord(s, source))))
    /\ \/ store'[PROGRESS_KEY] = store[PROGRESS_KEY]
       \/ \E s \in QualifyingStatements :
             /\ ReachesUpdate(store, storeAvailable, s)
             /\ store'[PROGRESS_KEY] =
                   JSONstringify(UpdatedProgress(store, storeAvailable, s))
    /\ \/ store'[PROGRESS_SUMMARY_KEY] = store[PROGRESS_SUMMARY_KEY]
       \/ \E s \in QualifyingStatements :
             /\ ReachesUpdate(store, storeAvailable, s)
             /\ store'[PROGRESS_SUMMARY_KEY] =
                   JSONstringify(SummaryOf(UpdatedProgress(store, storeAvailable, s).m))

\* C25: a rejected store write does not raise: it reports false, the value
\* stored under the key stays, the handler runs to its end, and the next
\* event is handled from the values that are stored.
C25_RejectedWrite ==
    /\ [](/\ \A key \in Keys : RejectedWriteKeeps(key, JArr(<<>>))
          /\ \A s \in Statements, okP, okS \in BOOLEAN : HandlerCompletes(s, okP, okS)
          /\ \A s \in Statements : UpdateCompletes(s))
    /\ [][delivered' = delivered + 1 => FromPersisted]_vars

\* the write of the log was rejected and the handler has gone on to count
\* the statement
C25_Witness ==
    /\ storeAvailable
    /\ delivered = 1
    /\ store[XAPI_RECORDS_KEY] = Absent
    /\ SlugA \in DOMAIN ProgressOf(store, storeAvailable)
    /\ ProgressOf(store, storeAvailable)[SlugA].questionsAnswered = 1
    /\ store[PROGRESS_SUMMARY_KEY].k = "json"

\* every record of the mapping before is in the mapping after, with
\* counters that are not lower
RecordsKept(before, after) ==
    \A slug \in DOMAIN before :
        /\ slug \in DOMAIN after
        /\ after[slug].questionsAnswered >= before[slug].questionsAnswered
        /\ after[slug].questionsCompleted >= before[slug].questionsCompleted

\* C26: a progress record, once stored, is removed or reset by clearProgress
\* only: in every other step (events, cleanup, mounting again) the slugs
\* with a record stay and questionsAnswered and questionsCompleted of each
\* do not decrease.
C26_RecordsKept ==
    [][lastOp' # "clearProgress" =>
          RecordsKept(ProgressOf(store, storeAvailable),
                      ProgressOf(store', storeAvailable'))]_vars

\* a statement of quiz-b was ingested after the completion of quiz-a and
\* the record of quiz-a is still there
C26_Witness ==
    /\ mounted
    /\ attempts = 1
    /\ delivered = 2
    /\ Len(LogOf(store, storeAvailable)) = 2
    /\ LogOf(store, storeAvailable)[1].statement = StmtA(VerbCompleted, R80)
    /\ DOMAIN ProgressOf(store, storeAvailable) = {SlugA, SlugB}
    /\ ProgressOf(store, storeAvailable)[SlugA].questionsCompleted = 1

-----------------------------------------------------------------------------
(* Several components use the hook at once: App calls useXapiTracker() and  *)
(* renders H5PPlayer, which calls it too.  Each call has callbacks and refs *)
(* of its own and registers its own handleDocumentXapiEvent on document;    *)
(* the storage is the one localStorage of the page.                         *)

Components == {"App", "H5PPlayer"}

\* the outcomes of the three setItem calls of one handler run
WriteOutcomes == [records : BOOLEAN, progress : BOOLEAN, summary : BOOLEAN]

AllAccepted == [records |-> TRUE, progress |-> TRUE, summary |-> TRUE]

RECURSIVE dispatchEvent(_, _, _, _, _)
\* document.dispatchEvent(event): the registered handlers run one after the
\* other, in the order of their registration; ok[c] are the write outcomes
\* of the handler of component c
dispatchEvent(st, avail, listeners, event, ok) ==
    IF listeners = <<>> THEN st
    ELSE dispatchEvent(handleDocumentXapiEvent(st, avail, event,
                                               ok[Head(listeners)].records,
                                               ok[Head(listeners)].progress,
                                               ok[Head(listeners)].summary),
                       avail, Tail(listeners), event, ok)

IsListener(c) == \E i \in DOMAIN documentListeners : documentListeners[i] = c

InstancesUnchanged ==
    UNCHANGED <<storeAvailable, mounted, docListener, dispListener, h5pListenerRef,
                initTimeout, dispatcherReady, isListening, fnArg, fnRet, tracker,
                attempts, player, loader>>

\* no component is mounted; the storage is as the page finds it
InitInstances == Init

\* the effect of the hook called by component c runs
MountComponent(c) ==
    /\ ~IsListener(c)
    /\ documentListeners' = Append(documentListeners, c)
    /\ lastOp' = "none"
    /\ UNCHANGED <<store, delivered>>
    /\ InstancesUnchanged

\* the cleanup of the hook called by component c runs
UnmountComponent(c) ==
    /\ IsListener(c)
    /\ documentListeners' = SelectSeq(documentListeners, LAMBDA d : d # c)
    /\ lastOp' = "none"
    /\ UNCHANGED <<store, delivered>>
    /\ InstancesUnchanged

\* an 'xAPI' event is dispatched on document
DispatchDocumentEvent(event, ok) ==
    /\ documentListeners # <<>>
    /\ delivered < MaxEvents
    /\ delivered' = delivered + 1
    /\ store' = dispatchEvent(store, storeAvailable, documentListeners, event, ok)
    /\ lastOp' = "none"
    /\ UNCHANGED documentListeners
    /\ InstancesUnchanged

NextInstances ==
    \/ \E c \in Components : MountComponent(c)
    \/ \E c \in Components : UnmountComponent(c)
    \/ \E event \in DocumentEvents, ok \in [Components -> WriteOutcomes] :
          DispatchDocumentEvent(event, ok)

SpecInstances == InitInstances /\ [][NextInstances]_vars

\* the sum of the two counters of the record of slug in the mapping m
CountedFor(m, slug) ==
    IF slug \in DOMAIN m
    THEN m[slug].questionsAnswered + m[slug].questionsCompleted
    ELSE 0

\* C27: with one or several components using the hook, one document 'xAPI'
\* event appends exactly one Statement Record to the log and raises the
\* counter of the statement's slug exactly once (the storage taking the
\* writes).
C27_OneEventOneRecord ==
    documentListeners # <<>> /\ StoreTakesEntries =>
        \A event \in DocumentEvents :
            Truthy(DocumentStatementOf(event)) =>
            \A s \in {DocumentStatementOf(event)} :
            \A after \in {dispatchEvent(store, storeAvailable, documentListeners,
                                        event, [c \in Components |-> AllAccepted])} :
                /\ Len(LogOf(after, storeAvailable))
                      = Len(LogOf(store, storeAvailable)) + 1
                /\ Qualifies(s) =>
                      CountedFor(ProgressOf(after, storeAvailable),
                                 extractActivitySlug(s).s)
                         = CountedFor(ProgressOf(store, storeAvailable),
                                      extractActivitySlug(s).s) + 1

\* App and H5PPlayer both listen; one event was dispatched, and the log
\* holds its statement twice and the record counts it twice
C27_Witness ==
    /\ Len(documentListeners) = 2
    /\ delivered = 1
    /\ Len(LogOf(store, storeAvailable)) = 2
    /\ LogOf(store, storeAvailable)[1] = LogRecord(StmtA(VerbAnswered, R80), "document")
    /\ LogOf(store, storeAvailable)[2] = LogRecord(StmtA(VerbAnswered, R80), "document")
    /\ SlugA \in DOMAIN ProgressOf(store, storeAvailable)
    /\ ProgressOf(store, storeAvailable)[SlugA].questionsAnswered = 2

-----------------------------------------------------------------------------
(* The hook on a page whose storage is empty at first and takes every      *)
(* write, with no call of clearRecords or clearProgress.                    *)

InitNoFailure == Idle /\ fnArg = Undef /\ fnRet = Undef

NextNoFailure ==
    \/ DispatcherAppears
    \/ Mount
    \/ RetryTimer
    \/ Unmount
    \/ \E event \in DocumentEvents : DocumentXapiEvent(event, TRUE, TRUE, TRUE)
    \/ \E event \in H5PEvents : H5PXapiEvent(event, TRUE, TRUE, TRUE)

SpecNoFailure == InitNoFailure /\ [][NextNoFailure]_vars

\* the records of the log whose statement has a verb with the suffix and
\* the slug
RecordsOf(log, slug, suffix) ==
    {i \in DOMAIN log :
        /\ log[i].statement.verb.k = "str"
        /\ EndsWith(log[i].statement.verb.s, suffix)
        /\ extractActivitySlug(log[i].statement).s = slug}

\* the slugs of the log's records with a tracked verb
SlugsOf(log) ==
    {extractActivitySlug(log[i].statement).s :
        i \in {j \in DOMAIN log : Qualifies(log[j].statement)}}

\* C28: from an empty store, with no clear operation and no store failure,
\* every slug of the log or of the progress mapping has a record whose
\* questionsAnswered is the number of log records of that slug with a verb
\* ending in /answered and whose questionsCompleted is the number with a
\* verb ending in /completed.
C28_LogAndProgressAgree ==
    \A log \in {LogOf(store, storeAvailable)} :
    \A m \in {ProgressOf(store, storeAvailable)} :
    \A slug \in SlugsOf(log) \cup DOMAIN m :
        /\ slug \in DOMAIN m
        /\ m[slug].questionsAnswered = Cardinality(RecordsOf(log, slug, Answered))
        /\ m[slug].questionsCompleted = Cardinality(RecordsOf(log, slug, Completed))

\* quiz-a was answered on the document path and completed on the dispatcher
\* path, and its record counts one of each
C28_Witness ==
    /\ Len(LogOf(store, storeAvailable)) = 2
    /\ LogOf(store, storeAvailable)[1] = LogRecord(StmtA(VerbAnswered, R80), "document")
    /\ LogOf(store, storeAvailable)[2] =
          LogRecord(StmtA(VerbCompleted, R80), "H5P.externalDispatcher")
    /\ ProgressOf(store, storeAvailable)[SlugA].questionsAnswered = 1
    /\ ProgressOf(store, storeAvailable)[SlugA].questionsCompleted = 1

-----------------------------------------------------------------------------
(* components/H5PPlayer: setupH5PEventListeners.  player.chains has one     *)
(* entry for each call the mount effect has made: the state of its retry    *)
(* chain, the attempt number the pending timer will pass on, and the number *)
(* of timer callbacks that have run.                                        *)

MAX_ATTEMPTS == 15
MaxMounts == 2

\* a setupH5PEventListeners without the test of the global flag
setupH5PEventListenersNoFlag(p, c, attempt) ==
    IF ~p.dispatcher
    THEN IF attempt < MAX_ATTEMPTS
         THEN [p EXCEPT !.chains[c].state = "timer",
                        !.chains[c].attempt = attempt + 1]
         ELSE [p EXCEPT !.chains[c].state = "gaveup"]
    ELSE [p EXCEPT !.attached = TRUE,
                   !.handlers = @ + 1,
                   !.chains[c].state = "attached"]

\* setupH5PEventListeners(h5pInstance, activityId, debug, attempt), called
\* for the chain c
setupH5PEventListeners(p, c, attempt) ==
    IF ~p.dispatcher
    THEN IF attempt < MAX_ATTEMPTS
         THEN [p EXCEPT !.chains[c].state = "timer",
                        !.chains[c].attempt = attempt + 1]
         ELSE [p EXCEPT !.chains[c].state = "gaveup"]
    ELSE IF p.attached
    THEN [p EXCEPT !.chains[c].state = "skipped"]
    ELSE [p EXCEPT !.attached = TRUE,
                   !.handlers = @ + 1,
                   !.chains[c].state = "attached"]

PlayerUnchanged ==
    UNCHANGED <<store, storeAvailable, mounted, docListener, dispListener,
                h5pListenerRef, initTimeout, dispatcherReady, isListening,
                delivered, fnArg, fnRet, tracker, attempts, documentListeners,
                loader>>

InitPlayer == Idle /\ fnArg = Undef /\ fnRet = Undef

\* the mount effect of an H5PPlayer gets as far as setupH5PEventListeners
PlayerMounts ==
    /\ Len(player.chains) < MaxMounts
    /\ player' = setupH5PEventListeners(
                    [player EXCEPT !.chains =
                        Append(@, [state |-> "running", attempt |-> 0, retries |-> 0])],
                    Len(player.chains) + 1, 0)
    /\ lastOp' = "none"
    /\ PlayerUnchanged

\* the 200 ms timer of chain c fires
PlayerTimerFires(c) ==
    /\ player.chains[c].state = "timer"
    /\ player' = setupH5PEventListeners(
                    [player EXCEPT !.chains[c].retries = @ + 1],
                    c, player.chains[c].attempt)
    /\ lastOp' = "none"
    /\ PlayerUnchanged

\* the player's scripts define window.H5P.externalDispatcher
PlayerDispatcherAppears ==
    /\ ~player.dispatcher
    /\ player' = [player EXCEPT !.dispatcher = TRUE]
    /\ lastOp' = "none"
    /\ PlayerUnchanged

NextPlayer ==
    \/ PlayerMounts
    \/ \E c \in DOMAIN player.chains : PlayerTimerFires(c)
    \/ PlayerDispatcherAppears

SpecPlayer == InitPlayer /\ [][NextPlayer]_vars

\* the chain has ended
Ended(chain) == chain.state \in {"attached", "skipped", "gaveup"}

-----------------------------------------------------------------------------
(* utils/h5pLoader.  loader.scriptPromises is the Map of the module, from   *)
(* src to the state of the cached promise; loader.h5pGlobalPromise is the   *)
(* index in loader.runs of the run of the async body it holds (0 while      *)
(* undefined); loader.callers gives, for each call of ensureH5PGlobals, the *)
(* run whose promise the call returned.  loader.scripts is the set of srcs  *)
(* with a script element in the document, loader.appended and loader.links  *)
(* count the script and link elements the loader appended, and              *)
(* loader.globals says that window.H5PStandalone or window.H5P is defined.  *)

MaxCallers == 3
MaxRetryCount == 2

PlayerBases == {"/h5p", "/alt"}

frameCss(playerBase) == playerBase \o "/styles/h5p.css"
mainBundle(playerBase) == playerBase \o "/main.bundle.js"

Srcs == {mainBundle(b) : b \in PlayerBases}

\* the elements the loader appended for the src or href
Count(f, x) == IF x \in DOMAIN f THEN f[x] ELSE 0

Put(f, x, v) == [y \in DOMAIN f \cup {x} |-> IF y = x THEN v ELSE f[y]]

\* loadScriptOnce(src): the loader after the call
loadScriptOnce(l, src) ==
    IF src \in DOMAIN l.scriptPromises
    THEN l
    ELSE IF src \in l.scripts
    THEN [l EXCEPT !.scriptPromises = Put(@, src, "resolved")]
    ELSE [l EXCEPT !.scriptPromises = Put(@, src, "pending"),
                   !.scripts = @ \cup {src},
                   !.appended = Put(@, src, Count(@, src) + 1)]

\* loadCssOnce(href); the document has the links the loader appended
loadCssOnce(l, href) ==
    IF Count(l.links, href) > 0
    THEN l
    ELSE [l EXCEPT !.links = Put(@, href, 1)]

\* the async body of ensureH5PGlobals up to its first await
StartRun(l, playerBase, retryCount) ==
    [loadScriptOnce(loadCssOnce(l, frameCss(playerBase)), mainBundle(playerBase))
        EXCEPT !.runs = Append(@, [state |-> "awaitScript",
                                   src |-> mainBundle(playerBase),
                                   retryCount |-> retryCount,
                                   tries |-> 0,
                                   error |-> ""]),
               !.h5pGlobalPromise = Len(l.runs) + 1]

\* an ensureH5PGlobals that does not look at h5pGlobalPromise
ensureH5PGlobalsAgain(l, playerBase, retryCount) ==
    [StartRun(l, playerBase, retryCount)
        EXCEPT !.callers = Append(@, Len(l.runs) + 1)]

\* ensureH5PGlobals({ playerBase, retryCount, retryInterval })
ensureH5PGlobals(l, playerBase, retryCount) ==
    IF l.h5pGlobalPromise # 0
    THEN [l EXCEPT !.callers = Append(@, l.h5pGlobalPromise)]
    ELSE [StartRun(l, playerBase, retryCount)
            EXCEPT !.callers = Append(@, Len(l.runs) + 1)]

\* the while loop of run r from its test to the next await, or past the
\* loop to the end of the body
PollLoop(l, r) ==
    IF ~l.globals /\ l.runs[r].tries < l.runs[r].retryCount
    THEN [l EXCEPT !.runs[r].state = "waiting"]
    ELSE IF ~l.globals
    THEN [l EXCEPT !.runs[r].state = "rejected",
                   !.runs[r].error = "H5P globals not available"]
    ELSE [l EXCEPT !.runs[r].state = "resolved"]

LoaderUnchanged ==
    UNCHANGED <<store, storeAvailable, mounted, docListener, dispListener,
                h5pListenerRef, initTimeout, dispatcherReady, isListening,
                delivered, fnArg, tracker, attempts, documentListeners,
                player>>

InitLoader == Idle /\ fnArg = Undef /\ fnRet = Undef

\* a component calls ensureH5PGlobals
EnsureH5PGlobals(playerBase, retryCount) ==
    /\ Len(loader.callers) < MaxCallers
    /\ loader' = ensureH5PGlobals(loader, playerBase, retryCount)
    /\ lastOp' = "ensureH5PGlobals"
    /\ fnRet' = Undef
    /\ LoaderUnchanged

\* a direct call of loadScriptOnce; fnRet is the state of the promise it
\* returns
LoadScriptOnce(src) ==
    /\ loader' = loadScriptOnce(loader, src)
    /\ lastOp' = "loadScriptOnce"
    /\ fnRet' = loader'.scriptPromises[src]
    /\ LoaderUnchanged

\* the page itself carries a script element with the src
PageHasScript(src) ==
    /\ src \notin loader.scripts
    /\ loader' = [loader EXCEPT !.scripts = @ \cup {src}]
    /\ lastOp' = "none"
    /\ fnRet' = Undef
    /\ LoaderUnchanged

\* s.onload
ScriptLoads(src) ==
    /\ src \in DOMAIN loader.scriptPromises
    /\ loader.scriptPromises[src] = "pending"
    /\ loader' = [loader EXCEPT !.scriptPromises[src] = "resolved"]
    /\ lastOp' = "none"
    /\ fnRet' = Undef
    /\ LoaderUnchanged

\* s.onerror
ScriptFails(src) ==
    /\ src \in DOMAIN loader.scriptPromises
    /\ loader.scriptPromises[src] = "pending"
    /\ loader' = [loader EXCEPT !.scriptPromises[src] = "rejected"]
    /\ lastOp' = "none"
    /\ fnRet' = Undef
    /\ LoaderUnchanged

\* run r resumes after await loadScriptOnce(mainBundle)
RunResumes(r) ==
    /\ loader.runs[r].state = "awaitScript"
    /\ loader.scriptPromises[loader.runs[r].src] # "pending"
    /\ loader' = IF loader.scriptPromises[loader.runs[r].src] = "rejected"
                 THEN [loader EXCEPT
                         !.runs[r].state = "rejected",
                         !.runs[r].error = "Failed to load script " \o loader.runs[r].src]
                 ELSE PollLoop(loader, r)
    /\ lastOp' = "none"
    /\ fnRet' = Undef
    /\ LoaderUnchanged

\* the retryInterval timer of run r fires: tries++ and the loop goes on
PollTimer(r) ==
    /\ loader.runs[r].state = "waiting"
    /\ loader' = PollLoop([loader EXCEPT !.runs[r].tries = @ + 1], r)
    /\ lastOp' = "none"
    /\ fnRet' = Undef
    /\ LoaderUnchanged

\* a script of the page defines window.H5PStandalone or window.H5P
GlobalsAppear ==
    /\ ~loader.globals
    /\ loader' = [loader EXCEPT !.globals = TRUE]
    /\ lastOp' = "none"
    /\ fnRet' = Undef
    /\ LoaderUnchanged

ScriptSettles == \E src \in Srcs : ScriptLoads(src) \/ ScriptFails(src)
BodyResumes == \E r \in DOMAIN loader.runs : RunResumes(r)
TimerFires == \E r \in DOMAIN loader.runs : PollTimer(r)

NextLoader ==
    \/ \E b \in PlayerBases, n \in 0..MaxRetryCount : EnsureH5PGlobals(b, n)
    \/ \E src \in Srcs : LoadScriptOnce(src)
    \/ \E src \in Srcs : PageHasScript(src)
    \/ ScriptSettles
    \/ BodyResumes
    \/ TimerFires
    \/ GlobalsAppear

\* the browser fires onload or onerror for an appended script, resumes an
\* async body whose awaited promise has settled, and fires a set timer
SpecLoader ==
    /\ InitLoader
    /\ [][NextLoader]_vars
    /\ WF_vars(ScriptSettles)
    /\ WF_vars(BodyResumes)
    /\ WF_vars(TimerFires)

Settled(run) == run.state \in {"resolved", "rejected"}

\* the outcome the caller c of ensureH5PGlobals gets
Outcome(c) ==
    [state |-> loader.runs[loader.callers[c]].state,
     error |-> loader.runs[loader.callers[c]].error]

\* C30: however ensureH5PGlobals and loadScriptOnce calls overlap, the
\* loader appends at most one script element for a src and every caller
\* of ensureH5PGlobals has the same outcome; the polling loop waits at most
\* retryCount times, the body resolves only with the globals defined and
\* rejects with 'H5P globals not available' only without them and after
\* retryCount waits, a settled body stays as it is, and a body that was
\* started settles.
C30_LoadedOnceAndTerminates ==
    /\ [](/\ \A src \in Srcs : Count(loader.appended, src) <= 1
          /\ \A c, d \in DOMAIN loader.callers : Outcome(c) = Outcome(d)
          /\ \A r \in DOMAIN loader.runs :
                /\ loader.runs[r].tries <= loader.runs[r].retryCount
                /\ loader.runs[r].state = "resolved" => loader.globals
                /\ loader.runs[r].state = "rejected" =>
                      \/ /\ loader.runs[r].error = "H5P globals not available"
                         /\ loader.runs[r].tries = loader.runs[r].retryCount
                      \/ /\ loader.runs[r].error = "Failed to load script " \o loader.runs[r].src
                         /\ loader.scriptPromises[loader.runs[r].src] = "rejected"
                         /\ loader.runs[r].tries = 0)
    /\ [][\A r \in DOMAIN loader.runs :
             /\ Settled(loader.runs[r]) => loader'.runs[r] = loader.runs[r]
             /\ (~Settled(loader.runs[r]) /\ loader'.runs[r].state = "rejected"
                 /\ loader'.runs[r].error = "H5P globals not available")
                    => ~loader'.globals]_vars
    /\ (loader.h5pGlobalPromise # 0) ~>
          (loader.h5pGlobalPromise # 0 /\ Settled(loader.runs[loader.h5pGlobalPromise]))

\* three overlapping calls with different arguments share the body the first
\* one started; it waited retryCount times and rejected, and only one script
\* element was appended
C30_Witness ==
    /\ Len(loader.callers) = 3
    /\ Len(loader.runs) = 1
    /\ loader.runs[1].retryCount = 2
    /\ loader.runs[1].tries = 2
    /\ loader.runs[1].state = "rejected"
    /\ loader.runs[1].error = "H5P globals not available"
    /\ Count(loader.appended, loader.runs[1].src) = 1

=============================================================================
